---- MODULE Spec2Model ----
(***************************************************************************)
(* LatissAcquireAndTakeSequence (auxtel/latiss_acquire_and_take_sequence): *)
(* the control flow of arun -> latiss_acquire -> latiss_take_sequence.     *)
(* One action per awaited statement of the script.  External calls         *)
(* (slew, take_object, imageInOODS wait, get_image, qm.run, offset_xy,     *)
(* add_point_data) either return or raise; the ataos focus-offset command  *)
(* is modelled as always acknowledged.                                     *)
(*                                                                         *)
(* History variables (not program state): log, focus_cmds, offset_cmds,    *)
(* ext_failed.                                                             *)
(***************************************************************************)
EXTENDS Integers, Sequences, FiniteSets, TLC

\* ---- bounds of the model ------------------------------------------------
MaxAcqIter == 3
MaxVisits == 2

\* values of manual_focus_offset tried (0 = default, no offset)
ManualFocusOffsets == {0, 2}
\* values of target_pointing_tolerance tried (arcsec)
Tolerances == {0, 5}
\* (dx_arcsec, dy_arcsec) pairs calculate_xy_offsets may return; <<0,0>> is a
\* source exactly on the target, <<3,4>> has radial error exactly 5
XYOffsets == {<<0, 0>>, <<3, 0>>, <<3, 4>>, <<6, 0>>}

VARIABLES
    config,                       \* the validated configuration (configure)
    pc,                           \* position of the script
    manual_focus_offset_applied,  \* self.manual_focus_offset_applied
    iter_num,                     \* loop variable of latiss_acquire
    range_pos,                    \* next value of range(self.max_acq_iter)
    success,                      \* _success of latiss_acquire
    result,                       \* result of qm.run in this iteration
    dx_arcsec, dy_arcsec,         \* last calculate_xy_offsets result
    visit,                        \* number of visit_configs already taken
    error,                        \* why the run raised ("none" while it has not)
    log,                          \* history: events in order
    focus_cmds,                   \* history: z of every ataos cmd_offset
    offset_cmds,                  \* history: arguments of every atcs.offset_xy
    ext_failed,                   \* history: an external call has raised
    in_flight,                    \* exposures whose imageInOODS event the
                                  \* archiver has still to publish
    oods_queue,                   \* unread events of evt_imageInOODS
    data_id                       \* exposure named by the event last read

acq_vars == <<config, pc, manual_focus_offset_applied, iter_num, range_pos,
          success, result,
          dx_arcsec, dy_arcsec, visit, error, log, focus_cmds, offset_cmds,
          ext_failed, in_flight, oods_queue, data_id>>

\* the imageInOODS event channel
oods_vars == <<in_flight, oods_queue, data_id>>

\* LatissCWFSAlign (auxtel/latiss_cwfs_align), one record per part:
VARIABLES
    mapper,    \* show_results: zern, angle and the offsets it computes
    props,     \* the dz / binning properties and the inst / algo they build
    cutter,    \* center_and_cut_images: window geometry and the stamps
    cwfs,      \* run_cwfs, take_intra_extra, hexapod_offset, get_isr_exposure
    selector   \* select_cwfs_source: the detected sources and the selection

\* LatissTakeSequence (auxtel/latiss_take_sequence) and LaserCoordination
\* (coordination/script):
VARIABLES
    takeseq,   \* configure and run of LatissTakeSequence
    laser      \* run of LaserCoordination

more_vars == <<selector, takeseq, laser>>

other_vars == <<mapper, props, cutter, cwfs, more_vars>>

vars == <<acq_vars, other_vars>>

\* the parts added for the other scripts, while they do not run
MoreIdle ==
    /\ selector = [phase |-> "idle"]
    /\ takeseq = [pc |-> "idle"]
    /\ laser = [pc |-> "idle"]

\* the parts of LatissCWFSAlign while only LatissAcquireAndTakeSequence runs
OtherIdle ==
    /\ mapper = [phase |-> "idle"]
    /\ props = [phase |-> "idle"]
    /\ cutter = [phase |-> "idle"]
    /\ cwfs = [pc |-> "idle"]
    /\ MoreIdle

\* exposure ids: the loop exposure of iteration n (0-based) is n + 1; an
\* exposure taken before the script started may still have its event pending
StaleExposure == 0
NoExposure == -1
ExposureOf(n) == n + 1

NoResult == [success |-> FALSE, dx |-> 0, dy |-> 0]

Configs ==
    [manual_focus_offset : ManualFocusOffsets,
     max_acq_iter : 1..MaxAcqIter,
     target_pointing_tolerance : Tolerances,
     target_pointing_verification : BOOLEAN,
     do_acquire : BOOLEAN,
     do_take_sequence : BOOLEAN,
     do_pointing_model : BOOLEAN,
     nvisits : 1..MaxVisits]

Ev(e, n) == [ev |-> e, it |-> n]

\* ---- pure helpers -------------------------------------------------------

\* dr_arcsec = np.sqrt(dx**2 + dy**2); dr_arcsec < tolerance.  For integer
\* operands sqrt(n) < t holds exactly when t > 0 and n < t*t.
WithinToleranceInclusive(dx, dy, tol) ==
    tol >= 0 /\ dx * dx + dy * dy <= tol * tol

WithinToleranceReversed(dx, dy, tol) ==
    dx * dx + dy * dy > tol * tol

WithinTolerance(dx, dy, tol) == tol > 0 /\ dx * dx + dy * dy < tol * tol

\* await self.atcs.rem.ataos.cmd_offset.set_start(z=z)
CmdOffset(z) == focus_cmds' = Append(focus_cmds, z)

\* self.manual_focus_offset != 0.0 and not self.manual_focus_offset_applied
NeedsFocusOffsetNoFlag == config.manual_focus_offset # 0

NeedsFocusOffset ==
    config.manual_focus_offset # 0 /\ ~manual_focus_offset_applied

\* arguments of atcs.offset_xy(dx_arcsec, dy_arcsec, relative=True,
\* persistent=False)
OffsetXYArgsPersistent(dx, dy) ==
    [dx |-> dx, dy |-> dy, relative |-> TRUE, persistent |-> TRUE]

OffsetXYArgs(dx, dy) ==
    [dx |-> dx, dy |-> dy, relative |-> TRUE, persistent |-> FALSE]

\* raise out of the script
Raise(why) == /\ pc' = "raised"
              /\ error' = why

\* ---- configure ----------------------------------------------------------
Init ==
    /\ config \in Configs
    /\ pc = "arun"
    /\ manual_focus_offset_applied = FALSE
    /\ iter_num = 0
    /\ range_pos = 0
    /\ success = FALSE
    /\ result = NoResult
    /\ dx_arcsec = 0
    /\ dy_arcsec = 0
    /\ visit = 0
    /\ error = "none"
    /\ log = <<>>
    /\ focus_cmds = <<>>
    /\ offset_cmds = <<>>
    /\ ext_failed = FALSE
    /\ in_flight = {}
    /\ oods_queue = <<>>
    /\ data_id = NoExposure
    /\ OtherIdle

\* the script starts while the imageInOODS event of an exposure taken before
\* it may still be pending in the archiver; acquisition followed by a
\* one-visit sequence, no focus offset
OodsConfigs ==
    {c \in Configs :
        /\ c.manual_focus_offset = 0
        /\ c.do_acquire /\ c.do_take_sequence
        /\ ~c.target_pointing_verification /\ ~c.do_pointing_model
        /\ c.nvisits = 1}

OodsInit ==
    /\ config \in OodsConfigs
    /\ pc = "arun"
    /\ manual_focus_offset_applied = FALSE
    /\ iter_num = 0
    /\ range_pos = 0
    /\ success = FALSE
    /\ result = NoResult
    /\ dx_arcsec = 0
    /\ dy_arcsec = 0
    /\ visit = 0
    /\ error = "none"
    /\ log = <<>>
    /\ focus_cmds = <<>>
    /\ offset_cmds = <<>>
    /\ ext_failed = FALSE
    /\ in_flight \in {{}, {StaleExposure}}
    /\ oods_queue = <<>>
    /\ data_id = NoExposure
    /\ OtherIdle

ARunAlwaysAcquires ==
    /\ pc = "arun"
    /\ pc' = "slew"
    /\ UNCHANGED <<config, manual_focus_offset_applied, iter_num, range_pos,
                   success, result, dx_arcsec, dy_arcsec, visit, error, log,
                   focus_cmds, offset_cmds, ext_failed>>
    /\ UNCHANGED oods_vars
    /\ UNCHANGED other_vars

\* ---- arun ---------------------------------------------------------------
\* arun: latiss_acquire if do_acquire, then latiss_take_sequence if
\* do_take_sequence
ARun ==
    /\ pc = "arun"
    /\ pc' = IF config.do_acquire THEN "slew"
             ELSE IF config.do_take_sequence THEN "seq_focus" ELSE "done"
    /\ UNCHANGED <<config, manual_focus_offset_applied, iter_num, range_pos,
                   success, result, dx_arcsec, dy_arcsec, visit, error, log,
                   focus_cmds, offset_cmds, ext_failed>>
    /\ UNCHANGED oods_vars
    /\ UNCHANGED other_vars

\* ---- latiss_acquire -----------------------------------------------------
\* asyncio.gather(slew, setup_atspec)
Slew ==
    /\ pc = "slew"
    /\ \E ok \in BOOLEAN :
         IF ok
         THEN /\ pc' = "acq_focus"
              /\ log' = Append(log, Ev("slew", 0))
              /\ UNCHANGED <<error, ext_failed>>
         ELSE /\ Raise("slew")
              /\ ext_failed' = TRUE
              /\ log' = Append(log, Ev("raise", 0))
    /\ UNCHANGED <<config, manual_focus_offset_applied, iter_num, range_pos,
                   success, result, dx_arcsec, dy_arcsec, visit, focus_cmds,
                   offset_cmds>>
    /\ UNCHANGED oods_vars
    /\ UNCHANGED other_vars

\* apply the manual focus offset if required; iter_num = 0; _success = False
AcqFocus ==
    /\ pc = "acq_focus"
    /\ IF NeedsFocusOffset
       THEN /\ CmdOffset(config.manual_focus_offset)
            /\ manual_focus_offset_applied' = TRUE
            /\ log' = Append(log, Ev("apply", 0))
       ELSE UNCHANGED <<focus_cmds, manual_focus_offset_applied, log>>
    /\ iter_num' = 0
    /\ range_pos' = 0
    /\ success' = FALSE
    /\ pc' = "loop"
    /\ UNCHANGED <<config, result, dx_arcsec, dy_arcsec, visit, error,
                   offset_cmds, ext_failed>>
    /\ UNCHANGED oods_vars
    /\ UNCHANGED other_vars

\* variant: range(self.max_acq_iter + 1)
LoopHeadOneMore ==
    /\ pc = "loop"
    /\ IF range_pos <= config.max_acq_iter
       THEN /\ iter_num' = range_pos
            /\ range_pos' = range_pos + 1
            /\ pc' = "take"
       ELSE /\ pc' = "after_loop"
            /\ UNCHANGED <<iter_num, range_pos>>
    /\ UNCHANGED <<config, manual_focus_offset_applied, success, result,
                   dx_arcsec, dy_arcsec, visit, error, log, focus_cmds,
                   offset_cmds, ext_failed>>
    /\ UNCHANGED oods_vars
    /\ UNCHANGED other_vars

\* for iter_num in range(self.max_acq_iter)
LoopHead ==
    /\ pc = "loop"
    /\ IF range_pos < config.max_acq_iter
       THEN /\ iter_num' = range_pos
            /\ range_pos' = range_pos + 1
            /\ pc' = "take"
       ELSE /\ pc' = "after_loop"
            /\ UNCHANGED <<iter_num, range_pos>>
    /\ UNCHANGED <<config, manual_focus_offset_applied, success, result,
                   dx_arcsec, dy_arcsec, visit, error, log, focus_cmds,
                   offset_cmds, ext_failed>>
    /\ UNCHANGED oods_vars
    /\ UNCHANGED other_vars

\* the archiver publishes the imageInOODS event of an exposure; the remote
\* appends it to the event's queue
ArchiverEmit ==
    /\ pc \notin {"done", "raised"}
    /\ \E e \in in_flight :
         /\ in_flight' = in_flight \ {e}
         /\ oods_queue' = Append(oods_queue, e)
    /\ UNCHANGED <<config, pc, manual_focus_offset_applied, iter_num,
                   range_pos, success, result, dx_arcsec, dy_arcsec, visit,
                   error, log, focus_cmds, offset_cmds, ext_failed, data_id>>
    /\ UNCHANGED other_vars

\* evt_imageInOODS.flush(); latiss.take_object(exptime, n=1) starts: the
\* exposure is taken and handed to the archiver
FlushAndExpose ==
    /\ pc = "take"
    /\ oods_queue' = <<>>
    /\ in_flight' = in_flight \cup {ExposureOf(iter_num)}
    /\ pc' = "taking"
    /\ UNCHANGED <<config, manual_focus_offset_applied, iter_num, range_pos,
                   success, result, dx_arcsec, dy_arcsec, visit, error, log,
                   focus_cmds, offset_cmds, ext_failed, data_id>>
    /\ UNCHANGED other_vars

\* tmp = await latiss.take_object(exptime, n=1) returns or raises
TakeObject ==
    /\ pc = "taking"
    /\ \E ok \in BOOLEAN :
         IF ok
         THEN /\ pc' = "wait_oods"
              /\ log' = Append(log, Ev("expose", iter_num))
              /\ UNCHANGED <<error, ext_failed>>
         ELSE /\ Raise("take_object")
              /\ ext_failed' = TRUE
              /\ log' = Append(log, Ev("raise", iter_num))
    /\ UNCHANGED <<config, manual_focus_offset_applied, iter_num, range_pos,
                   success, result, dx_arcsec, dy_arcsec, visit, focus_cmds,
                   offset_cmds>>
    /\ UNCHANGED oods_vars
    /\ UNCHANGED other_vars

\* in_oods = await evt_imageInOODS.next(timeout, flush=False): the oldest
\* unread event, or a timeout while the queue is empty; data_id from
\* parse_obs_id(in_oods.obsid)
GetNextImageDataId ==
    /\ pc = "wait_oods"
    /\ IF oods_queue # <<>>
       THEN /\ data_id' = Head(oods_queue)
            /\ oods_queue' = Tail(oods_queue)
            /\ pc' = "get_image"
            /\ log' = Append(log, Ev("oods", iter_num))
            /\ UNCHANGED <<error, ext_failed>>
       ELSE /\ Raise("imageInOODS timeout")
            /\ ext_failed' = TRUE
            /\ log' = Append(log, Ev("raise", iter_num))
            /\ UNCHANGED <<data_id, oods_queue>>
    /\ UNCHANGED <<config, manual_focus_offset_applied, iter_num, range_pos,
                   success, result, dx_arcsec, dy_arcsec, visit, focus_cmds,
                   offset_cmds, in_flight>>
    /\ UNCHANGED other_vars

\* exp = await get_image(data_id, ...)
GetImage ==
    /\ pc = "get_image"
    /\ \E ok \in BOOLEAN :
         IF ok
         THEN /\ pc' = "qm"
              /\ log' = Append(log, Ev("image", iter_num))
              /\ UNCHANGED <<error, ext_failed>>
         ELSE /\ Raise("get_image")
              /\ ext_failed' = TRUE
              /\ log' = Append(log, Ev("raise", iter_num))
    /\ UNCHANGED <<config, manual_focus_offset_applied, iter_num, range_pos,
                   success, result, dx_arcsec, dy_arcsec, visit, focus_cmds,
                   offset_cmds>>
    /\ UNCHANGED oods_vars
    /\ UNCHANGED other_vars

\* result = await loop.run_in_executor(executor, self.qm.run, exp): the task
\* raises, or returns result.success False, or returns a centroid whose
\* offsets to the target are (dx, dy)
QmRun ==
    /\ pc = "qm"
    /\ \/ /\ Raise("qm.run")
          /\ ext_failed' = TRUE
          /\ log' = Append(log, Ev("raise", iter_num))
          /\ UNCHANGED result
       \/ /\ result' = NoResult
          /\ pc' = "check"
          /\ log' = Append(log, Ev("locate", iter_num))
          /\ UNCHANGED <<error, ext_failed>>
       \/ /\ \E xy \in XYOffsets :
               result' = [success |-> TRUE, dx |-> xy[1], dy |-> xy[2]]
          /\ pc' = "check"
          /\ log' = Append(log, Ev("locate", iter_num))
          /\ UNCHANGED <<error, ext_failed>>
    /\ UNCHANGED <<config, manual_focus_offset_applied, iter_num, range_pos,
                   success, dx_arcsec, dy_arcsec, visit, focus_cmds,
                   offset_cmds>>
    /\ UNCHANGED oods_vars
    /\ UNCHANGED other_vars

\* variant: raise without removing the focus offset
CheckResultNoRemove ==
    /\ pc = "check"
    /\ IF ~result.success
       THEN /\ IF FALSE
               THEN /\ CmdOffset(-config.manual_focus_offset)
                    /\ manual_focus_offset_applied' = FALSE
                    /\ log' = log \o <<Ev("remove", iter_num),
                                       Ev("raise", iter_num)>>
               ELSE /\ log' = Append(log, Ev("raise", iter_num))
                    /\ UNCHANGED <<focus_cmds, manual_focus_offset_applied>>
            /\ Raise("Centroid finding algorithm was unsuccessful.")
       ELSE /\ pc' = "measure"
            /\ UNCHANGED <<focus_cmds, manual_focus_offset_applied, log,
                           error>>
    /\ UNCHANGED <<config, iter_num, range_pos, success, result, dx_arcsec,
                   dy_arcsec, visit, offset_cmds, ext_failed>>
    /\ UNCHANGED oods_vars
    /\ UNCHANGED other_vars

\* if not result.success: remove the focus offset if applied, then raise
CheckResult ==
    /\ pc = "check"
    /\ IF ~result.success
       THEN /\ IF manual_focus_offset_applied
               THEN /\ CmdOffset(-config.manual_focus_offset)
                    /\ manual_focus_offset_applied' = FALSE
                    /\ log' = log \o <<Ev("remove", iter_num),
                                       Ev("raise", iter_num)>>
               ELSE /\ log' = Append(log, Ev("raise", iter_num))
                    /\ UNCHANGED <<focus_cmds, manual_focus_offset_applied>>
            /\ Raise("Centroid finding algorithm was unsuccessful.")
       ELSE /\ pc' = "measure"
            /\ UNCHANGED <<focus_cmds, manual_focus_offset_applied, log,
                           error>>
    /\ UNCHANGED <<config, iter_num, range_pos, success, result, dx_arcsec,
                   dy_arcsec, visit, offset_cmds, ext_failed>>
    /\ UNCHANGED oods_vars
    /\ UNCHANGED other_vars

\* variant: no offset after the final failed measurement
MeasureSkipsLastOffset ==
    /\ pc = "measure"
    /\ dx_arcsec' = result.dx
    /\ dy_arcsec' = result.dy
    /\ IF WithinTolerance(result.dx, result.dy,
                          config.target_pointing_tolerance)
       THEN /\ success' = TRUE
            /\ pc' = "after_loop"
            /\ log' = log \o <<Ev("radial", iter_num),
                               Ev("success", iter_num)>>
       ELSE /\ pc' = IF range_pos < config.max_acq_iter
                      THEN "offset" ELSE "after_loop"
            /\ log' = Append(log, Ev("radial", iter_num))
            /\ UNCHANGED success
    /\ UNCHANGED <<config, manual_focus_offset_applied, iter_num, range_pos,
                   result, visit, error, focus_cmds, offset_cmds, ext_failed>>
    /\ UNCHANGED oods_vars
    /\ UNCHANGED other_vars

\* variant: the offset is commanded before the radial error is checked
MeasureOffsetsBeforeCheck ==
    /\ pc = "measure"
    /\ dx_arcsec' = result.dx
    /\ dy_arcsec' = result.dy
    /\ IF WithinTolerance(result.dx, result.dy,
                          config.target_pointing_tolerance)
       THEN /\ success' = TRUE
            /\ pc' = "after_loop"
            /\ log' = log \o <<Ev("offset", iter_num),
                               Ev("radial", iter_num),
                               Ev("success", iter_num)>>
       ELSE /\ pc' = "loop"
            /\ log' = log \o <<Ev("offset", iter_num),
                               Ev("radial", iter_num)>>
            /\ UNCHANGED success
    /\ UNCHANGED <<config, manual_focus_offset_applied, iter_num, range_pos,
                   result, visit, error, focus_cmds, ext_failed>>
    /\ offset_cmds' = Append(offset_cmds, OffsetXYArgs(result.dx, result.dy))
    /\ UNCHANGED oods_vars
    /\ UNCHANGED other_vars

\* dx_arcsec, dy_arcsec = calculate_xy_offsets(current, target);
\* dr_arcsec = sqrt(dx^2 + dy^2); if dr_arcsec < tolerance: _success = True,
\* break
Measure ==
    /\ pc = "measure"
    /\ dx_arcsec' = result.dx
    /\ dy_arcsec' = result.dy
    /\ IF WithinTolerance(result.dx, result.dy,
                          config.target_pointing_tolerance)
       THEN /\ success' = TRUE
            /\ pc' = "after_loop"
            /\ log' = log \o <<Ev("radial", iter_num),
                               Ev("success", iter_num)>>
       ELSE /\ pc' = "offset"
            /\ log' = Append(log, Ev("radial", iter_num))
            /\ UNCHANGED success
    /\ UNCHANGED <<config, manual_focus_offset_applied, iter_num, range_pos,
                   result, visit, error, focus_cmds, offset_cmds, ext_failed>>
    /\ UNCHANGED oods_vars
    /\ UNCHANGED other_vars

\* await self.atcs.offset_xy(dx_arcsec, dy_arcsec, relative=True,
\*                           persistent=False)
OffsetXY ==
    /\ pc = "offset"
    /\ \E ok \in BOOLEAN :
         IF ok
         THEN /\ offset_cmds' = Append(offset_cmds,
                                     OffsetXYArgs(dx_arcsec, dy_arcsec))
              /\ pc' = "loop"
              /\ log' = Append(log, Ev("offset", iter_num))
              /\ UNCHANGED <<error, ext_failed>>
         ELSE /\ Raise("offset_xy")
              /\ ext_failed' = TRUE
              /\ log' = Append(log, Ev("raise", iter_num))
              /\ UNCHANGED offset_cmds
    /\ UNCHANGED <<config, manual_focus_offset_applied, iter_num, range_pos,
                   success, result, dx_arcsec, dy_arcsec, visit, focus_cmds>>
    /\ UNCHANGED oods_vars
    /\ UNCHANGED other_vars

\* if not _success: remove the focus offset if applied and raise
AfterLoop ==
    /\ pc = "after_loop"
    /\ IF ~success
       THEN /\ IF manual_focus_offset_applied
               THEN /\ CmdOffset(-config.manual_focus_offset)
                    /\ manual_focus_offset_applied' = FALSE
                    /\ log' = log \o <<Ev("remove", iter_num),
                                       Ev("raise", iter_num)>>
               ELSE /\ log' = Append(log, Ev("raise", iter_num))
                    /\ UNCHANGED <<focus_cmds, manual_focus_offset_applied>>
            /\ Raise("Failed to acquire star on target")
       ELSE /\ pc' = "verify"
            /\ UNCHANGED <<focus_cmds, manual_focus_offset_applied, log,
                           error>>
    /\ UNCHANGED <<config, iter_num, range_pos, success, result, dx_arcsec,
                   dy_arcsec, visit, offset_cmds, ext_failed>>
    /\ UNCHANGED oods_vars
    /\ UNCHANGED other_vars

VerifyAlways ==
    /\ pc = "verify"
    /\ IF TRUE
       THEN \E ok \in BOOLEAN :
              IF ok
              THEN /\ pc' = "point"
                   /\ log' = Append(log, Ev("verify", iter_num))
                   /\ UNCHANGED <<error, ext_failed>>
              ELSE /\ Raise("verification take_object")
                   /\ ext_failed' = TRUE
                   /\ log' = Append(log, Ev("raise", iter_num))
       ELSE /\ pc' = "point"
            /\ UNCHANGED <<log, error, ext_failed>>
    /\ UNCHANGED <<config, manual_focus_offset_applied, iter_num, range_pos,
                   success, result, dx_arcsec, dy_arcsec, visit, focus_cmds,
                   offset_cmds>>
    /\ UNCHANGED oods_vars
    /\ UNCHANGED other_vars

\* if target_pointing_verification: await latiss.take_object(...)
Verify ==
    /\ pc = "verify"
    /\ IF config.target_pointing_verification
       THEN \E ok \in BOOLEAN :
              IF ok
              THEN /\ pc' = "point"
                   /\ log' = Append(log, Ev("verify", iter_num))
                   /\ UNCHANGED <<error, ext_failed>>
              ELSE /\ Raise("verification take_object")
                   /\ ext_failed' = TRUE
                   /\ log' = Append(log, Ev("raise", iter_num))
       ELSE /\ pc' = "point"
            /\ UNCHANGED <<log, error, ext_failed>>
    /\ UNCHANGED <<config, manual_focus_offset_applied, iter_num, range_pos,
                   success, result, dx_arcsec, dy_arcsec, visit, focus_cmds,
                   offset_cmds>>
    /\ UNCHANGED oods_vars
    /\ UNCHANGED other_vars

\* if do_pointing_model: await atcs.add_point_data()
AddPointData ==
    /\ pc = "point"
    /\ IF config.do_pointing_model
       THEN \E ok \in BOOLEAN :
              IF ok
              THEN /\ pc' = "acq_remove"
                   /\ log' = Append(log, Ev("point", iter_num))
                   /\ UNCHANGED <<error, ext_failed>>
              ELSE /\ Raise("add_point_data")
                   /\ ext_failed' = TRUE
                   /\ log' = Append(log, Ev("raise", iter_num))
       ELSE /\ pc' = "acq_remove"
            /\ UNCHANGED <<log, error, ext_failed>>
    /\ UNCHANGED <<config, manual_focus_offset_applied, iter_num, range_pos,
                   success, result, dx_arcsec, dy_arcsec, visit, focus_cmds,
                   offset_cmds>>
    /\ UNCHANGED oods_vars
    /\ UNCHANGED other_vars

\* remove the focus offset if only an acquisition is performed; return to
\* arun
AcqRemove ==
    /\ pc = "acq_remove"
    /\ IF manual_focus_offset_applied /\ ~config.do_take_sequence
       THEN /\ CmdOffset(-config.manual_focus_offset)
            /\ manual_focus_offset_applied' = FALSE
            /\ log' = log \o <<Ev("remove", iter_num),
                               Ev("acquired", iter_num)>>
       ELSE /\ log' = Append(log, Ev("acquired", iter_num))
            /\ UNCHANGED <<focus_cmds, manual_focus_offset_applied>>
    /\ pc' = IF config.do_take_sequence THEN "seq_focus" ELSE "done"
    /\ UNCHANGED <<config, iter_num, range_pos, success, result, dx_arcsec,
                   dy_arcsec, visit, error, offset_cmds, ext_failed>>
    /\ UNCHANGED oods_vars
    /\ UNCHANGED other_vars

\* ---- latiss_take_sequence -----------------------------------------------
\* for i, (filt, expTime, grating) in enumerate(self.visit_configs):
\*     apply the manual focus offset if required and not yet applied
\* after the loop: remove the focus offset if applied
SeqFocus ==
    /\ pc = "seq_focus"
    /\ IF visit < config.nvisits
       THEN /\ IF NeedsFocusOffset
               THEN /\ CmdOffset(config.manual_focus_offset)
                    /\ manual_focus_offset_applied' = TRUE
                    /\ log' = Append(log, Ev("apply", visit))
               ELSE UNCHANGED <<focus_cmds, manual_focus_offset_applied, log>>
            /\ pc' = "seq_take"
       ELSE /\ IF manual_focus_offset_applied
               THEN /\ CmdOffset(-config.manual_focus_offset)
                    /\ manual_focus_offset_applied' = FALSE
                    /\ log' = Append(log, Ev("remove", visit))
               ELSE UNCHANGED <<focus_cmds, manual_focus_offset_applied, log>>
            /\ pc' = "done"
    /\ UNCHANGED <<config, iter_num, range_pos, success, result, dx_arcsec,
                   dy_arcsec, visit, error, offset_cmds, ext_failed>>
    /\ UNCHANGED oods_vars
    /\ UNCHANGED other_vars

\* await latiss.take_object(exptime=expTime, n=1, group_id, filter, grating)
SeqTake ==
    /\ pc = "seq_take"
    /\ \E ok \in BOOLEAN :
         IF ok
         THEN /\ visit' = visit + 1
              /\ pc' = "seq_focus"
              /\ log' = Append(log, Ev("seq_expose", visit))
              /\ UNCHANGED <<error, ext_failed>>
         ELSE /\ Raise("sequence take_object")
              /\ ext_failed' = TRUE
              /\ log' = Append(log, Ev("raise", visit))
              /\ UNCHANGED visit
    /\ UNCHANGED <<config, manual_focus_offset_applied, iter_num, range_pos,
                   success, result, dx_arcsec, dy_arcsec, focus_cmds,
                   offset_cmds>>
    /\ UNCHANGED oods_vars
    /\ UNCHANGED other_vars

Next ==
    \/ ARun
    \/ Slew
    \/ AcqFocus
    \/ LoopHead
    \/ ArchiverEmit
    \/ FlushAndExpose
    \/ TakeObject
    \/ GetNextImageDataId
    \/ GetImage
    \/ QmRun
    \/ CheckResult
    \/ Measure
    \/ OffsetXY
    \/ AfterLoop
    \/ Verify
    \/ AddPointData
    \/ AcqRemove
    \/ SeqFocus
    \/ SeqTake

Spec == Init /\ [][Next]_vars

\* the same script, started with an earlier exposure's event possibly pending
OodsSpec == OodsInit /\ [][Next]_vars

\* every external call returns (or raises) and the script keeps running
FairSpec == Spec /\ WF_vars(Next)

TypeOK ==
    /\ config \in Configs
    /\ pc \in {"arun", "slew", "acq_focus", "loop", "take", "taking",
               "wait_oods",
               "get_image", "qm", "check", "measure", "offset", "after_loop",
               "verify", "point", "acq_remove", "seq_focus", "seq_take",
               "done", "raised"}
    /\ manual_focus_offset_applied \in BOOLEAN
    /\ iter_num \in 0..MaxAcqIter
    /\ range_pos \in 0..MaxAcqIter
    /\ success \in BOOLEAN
    /\ visit \in 0..MaxVisits

\* ---- observations on the histories --------------------------------------
RECURSIVE SumSeq(_)
SumSeq(q) == IF q = <<>> THEN 0 ELSE Head(q) + SumSeq(Tail(q))

\* net focus offset commanded so far
NetFocus == SumSeq(focus_cmds)
\* number of apply (z = +manual_focus_offset) and remove commands
Applies ==
    Cardinality({i \in DOMAIN focus_cmds :
                   focus_cmds[i] = config.manual_focus_offset})
Removes ==
    Cardinality({i \in DOMAIN focus_cmds :
                   focus_cmds[i] = -config.manual_focus_offset})

NumEv(e) == Cardinality({i \in DOMAIN log : log[i].ev = e})

Ended == pc \in {"done", "raised"}

Exhausted == "Failed to acquire star on target"
CentroidFailed == "Centroid finding algorithm was unsuccessful."
\* the exceptions an acquisition iteration's measurement steps can raise
MeasurementErrors ==
    {"take_object", "imageInOODS timeout", "get_image", "qm.run"}

\* ---- C1 -----------------------------------------------------------------
\* C1: when a run with manual_focus_offset # 0 has ended (returned or
\* raised), as many focus-offset apply commands as remove commands have been
\* issued and the net commanded focus offset is zero.
C1_FocusNetZeroAtEnd ==
    (Ended /\ config.manual_focus_offset # 0)
        => (Applies = Removes /\ NetFocus = 0)

\* ---- C2 -----------------------------------------------------------------
\* C2: when a measurement step of an acquisition iteration (take_object, the
\* imageInOODS wait, get_image, the brightest-source task) has raised, the
\* focus offset is no longer applied: the applied flag is cleared and the
\* net commanded focus offset is zero.
C2_RollbackOnMeasurementException ==
    (pc = "raised" /\ error \in MeasurementErrors)
        => (~manual_focus_offset_applied /\ NetFocus = 0)

\* ---- C3 -----------------------------------------------------------------
\* focus_cmds is +m, -m, +m, ... : every remove follows an unmatched apply and
\* every apply follows a remove (or is the first command)
Alternating(q, m) ==
    \A i \in DOMAIN q : q[i] = IF i % 2 = 1 THEN m ELSE -m

C4_OneOffsetFewerThanExposures ==
    (pc = "raised" /\ error = Exhausted)
        => /\ NumEv("expose") = config.max_acq_iter
           /\ Len(offset_cmds) = config.max_acq_iter - 1

\* C4 amended: when the measured source never comes within tolerance, the
\* loop takes exactly max_acq_iter exposures, issues exactly max_acq_iter
\* offset_xy commands (one after every failed measurement, the final one
\* included: the last loop event is an offset) and then reports failure.
C4_OffsetAfterEveryFailedMeasurement ==
    ((pc = "after_loop" /\ ~success) \/ error = Exhausted)
        => /\ NumEv("expose") = config.max_acq_iter
           /\ NumEv("radial") = config.max_acq_iter
           /\ Len(offset_cmds) = config.max_acq_iter
           /\ NumEv("offset") = config.max_acq_iter
           /\ \E i \in DOMAIN log :
                /\ log[i] = Ev("offset", config.max_acq_iter - 1)
                /\ \A j \in (i + 1)..Len(log) :
                     log[j].ev \in {"remove", "raise"}
           /\ error \in {"none", Exhausted}

C4_Witness ==
    /\ pc = "raised"
    /\ error = Exhausted
    /\ config.max_acq_iter = 3
    /\ Len(offset_cmds) = 3

\* ---- C5 -----------------------------------------------------------------
\* dr_arcsec < tol for dr_arcsec = sqrt(dx^2 + dy^2), in integers
RadialErrorBelow(dx, dy, tol) == tol > 0 /\ dx * dx + dy * dy < tol * tol

\* the last event of the log
LastEv == IF log = <<>> THEN "none" ELSE log[Len(log)].ev

\* C5: after the radial error of an iteration has been computed, the
\* iteration is declared converged exactly when the radial error is strictly
\* below target_pointing_tolerance; otherwise (also when the error equals
\* the tolerance) the script is about to command an offset.
C5_ConvergedIffStrictlyBelow ==
    /\ (pc = "offset")
         => ~RadialErrorBelow(dx_arcsec, dy_arcsec,
                              config.target_pointing_tolerance)
    /\ success
         => RadialErrorBelow(dx_arcsec, dy_arcsec,
                             config.target_pointing_tolerance)
    /\ LastEv = "radial" => (pc = "offset" /\ ~success)
    /\ success <=> (NumEv("success") = 1)

\* a radial error of exactly 5 arcsec with a tolerance of 5 arcsec
C5_Witness ==
    /\ pc = "offset"
    /\ dx_arcsec = 3 /\ dy_arcsec = 4
    /\ config.target_pointing_tolerance = 5
    /\ ~success

\* ---- C6 -----------------------------------------------------------------
\* C6: if the first iteration measures the source exactly at the target
\* (dx = dy = 0) and the tolerance is positive, the loop is left with
\* _success after exactly one loop exposure, no offset_xy command is ever
\* issued, and latiss_acquire raises neither the exhausted-budget nor the
\* centroid failure.
C6_OnTargetConvergesInFirstIteration ==
    (/\ NumEv("radial") >= 1
     /\ range_pos = 1
     /\ dx_arcsec = 0 /\ dy_arcsec = 0
     /\ config.target_pointing_tolerance > 0)
        => /\ success
           /\ NumEv("expose") = 1
           /\ offset_cmds = <<>>
           /\ NumEv("success") = 1
           /\ pc \in {"after_loop", "verify", "point", "acq_remove",
                      "seq_focus", "seq_take", "done", "raised"}
           /\ error \notin {Exhausted, CentroidFailed}

C6_Witness ==
    /\ pc = "done"
    /\ NumEv("radial") = 1
    /\ dx_arcsec = 0 /\ dy_arcsec = 0
    /\ config.target_pointing_tolerance > 0
    /\ config.max_acq_iter = 3
    /\ NumEv("expose") = 1
    /\ NumEv("acquired") = 1

LoopEvs == {"expose", "oods", "image", "locate", "radial", "offset",
            "success"}
IsLoopEv(e) == e.ev \in LoopEvs
LoopLog == SelectSeq(log, IsLoopEv)

\* event q[i] is allowed after q[i-1]
InOrder(q, i) ==
    LET e == q[i].ev
        n == q[i].it
        p == IF i = 1 THEN Ev("start", -1) ELSE q[i - 1]
    IN  CASE e = "expose"  -> \/ i = 1 /\ n = 0
                              \/ p.ev = "offset" /\ n = p.it + 1
          [] e = "oods"    -> p = Ev("expose", n)
          [] e = "image"   -> p = Ev("oods", n)
          [] e = "locate"  -> p = Ev("image", n)
          [] e = "radial"  -> p = Ev("locate", n)
          [] e = "offset"  -> p = Ev("radial", n)
          [] e = "success" -> p = Ev("radial", n) /\ i = Len(q)
          [] OTHER -> FALSE

\* C8: the loop events occur, iteration by iteration, in the order expose,
\* image arrival, image retrieval, locate-brightest, radial error, then
\* either success (the last loop event) or offset; iteration n+1 exposes only
\* after iteration n's offset, so there is one exposure per iteration, an
\* offset only after that iteration's measurement, and an exposure between
\* any two offsets.
C8_IterationEventOrder ==
    /\ \A i \in DOMAIN LoopLog : InOrder(LoopLog, i)
    /\ \A i, j \in DOMAIN LoopLog :
         (i < j /\ LoopLog[i].ev = "offset" /\ LoopLog[j].ev = "offset")
            => \E k \in (i + 1)..(j - 1) : LoopLog[k].ev = "expose"
    /\ Len(offset_cmds) = NumEv("offset")

\* two full iterations with an offset each, and a third that converges
C8_Witness ==
    /\ NumEv("offset") = 2
    /\ NumEv("expose") = 3
    /\ LastEv = "success"

\* ---- C9 -----------------------------------------------------------------
\* C9 as stated: when no external call has raised, an acquisition that ends
\* without convergence has exhausted its iteration budget.
C9_OnlyAbortIsExhaustedBudget ==
    (pc = "raised" /\ ~ext_failed)
        => (error = Exhausted /\ NumEv("expose") = config.max_acq_iter)

\* C9 amended: the script always ends; the loop never takes more than
\* max_acq_iter exposures; and when no external call has raised, an
\* acquisition ends without convergence only by exhausting the iteration
\* budget (after max_acq_iter exposures) or because the brightest-source
\* measurement reported result.success false.
C9_TerminatesWithinBudget ==
    /\ <>Ended
    /\ [](NumEv("expose") <= config.max_acq_iter)
    /\ []((pc = "raised" /\ ~ext_failed)
            => \/ error = Exhausted
                  /\ NumEv("expose") = config.max_acq_iter
               \/ error = CentroidFailed /\ ~result.success)

\* both internal aborts happen: here the centroid failure, before the budget
\* is used up
C9_Witness ==
    /\ pc = "raised"
    /\ ~ext_failed
    /\ error = CentroidFailed
    /\ NumEv("expose") = 2
    /\ config.max_acq_iter = 3

HasEv(e, n) == \E i \in DOMAIN log : log[i] = Ev(e, n)
Queued(e) == \E i \in DOMAIN oods_queue : oods_queue[i] = e

\* C11: while an iteration retrieves, measures or offsets, take_object has
\* returned and the imageInOODS event read in this iteration is the one of
\* this iteration's exposure; and an event of this exposure published while
\* take_object is in progress (after the flush) is still in the queue when
\* the script comes to read it.
C11_MeasuresAfterOwnExposureArrived ==
    /\ pc \in {"get_image", "qm", "check", "measure", "offset"}
         => /\ HasEv("expose", iter_num)
            /\ HasEv("oods", iter_num)
            /\ data_id = ExposureOf(iter_num)
    /\ (pc \in {"taking", "wait_oods"}
        /\ ExposureOf(iter_num) \notin in_flight)
         => Queued(ExposureOf(iter_num))

(***************************************************************************)
(* LatissCWFSAlign (auxtel/latiss_cwfs_align).                             *)
(***************************************************************************)

\* LatissAcquireAndTakeSequence is not running
AcqIdle ==
    /\ config = [manual_focus_offset |-> 0, max_acq_iter |-> 1,
                 target_pointing_tolerance |-> 0,
                 target_pointing_verification |-> FALSE,
                 do_acquire |-> FALSE, do_take_sequence |-> FALSE,
                 do_pointing_model |-> FALSE, nvisits |-> 1]
    /\ pc = "done"
    /\ manual_focus_offset_applied = FALSE
    /\ iter_num = 0
    /\ range_pos = 0
    /\ success = FALSE
    /\ result = NoResult
    /\ dx_arcsec = 0
    /\ dy_arcsec = 0
    /\ visit = 0
    /\ error = "none"
    /\ log = <<>>
    /\ focus_cmds = <<>>
    /\ offset_cmds = <<>>
    /\ ext_failed = FALSE
    /\ in_flight = {}
    /\ oods_queue = <<>>
    /\ data_id = NoExposure

\* ---- exact rational arithmetic for the matrix products -------------------
RECURSIVE GCD(_, _)
GCD(a, b) == IF b = 0 THEN a ELSE GCD(b, a % b)
Abs(a) == IF a < 0 THEN -a ELSE a

\* the fraction n/d in lowest terms with a positive denominator
Rat(n, d) ==
    LET g == GCD(Abs(n), Abs(d))
        sg == IF d < 0 THEN -1 ELSE 1
    IN  <<sg * (n \div g), sg * (d \div g)>>
RInt(n) == <<n, 1>>
RAdd(a, b) == Rat(a[1] * b[2] + b[1] * a[2], a[2] * b[2])
RMul(a, b) == Rat(a[1] * b[1], a[2] * b[2])
RNeg(a) == <<-a[1], a[2]>>

\* np.matmul(v, M) for a 3-vector v and a 3x3 matrix M (rows of M indexed
\* first): result[j] = sum_i v[i] * M[i][j]
MatMul(v, M) ==
    [j \in 1..3 |->
        RAdd(RAdd(RMul(v[1], M[1][j]), RMul(v[2], M[2][j])),
             RMul(v[3], M[3][j]))]

\* k * v
Scaled(k, v) == [j \in 1..3 |-> RMul(RInt(k), v[j])]

\* ---- the calibration matrices of __init__ ---------------------------------
\* variant: the defocus entry carries the coma sensitivity
sensitivity_matrix_coma_z ==
    << <<Rat(1, 131), RInt(0), RInt(0)>>,
       <<RInt(0), Rat(-1, 131), RInt(0)>>,
       <<RInt(0), RInt(0), Rat(-1, 131)>> >>

\* mm of hexapod motion for nm of wavefront
sensitivity_matrix ==
    << <<Rat(1, 131), RInt(0), RInt(0)>>,
       <<RInt(0), Rat(-1, 131), RInt(0)>>,
       <<RInt(0), RInt(0), Rat(-1, 4200)>> >>

\* variant: the focus axis is converted to the sky as well
hexapod_offset_scale_with_z ==
    << <<RInt(60), RInt(0), RInt(0)>>,
       <<RInt(0), RInt(60), RInt(0)>>,
       <<RInt(0), RInt(0), RInt(60)>> >>

\* hexapod offset to alt/az offset in the focal plane, arcsec/mm
hexapod_offset_scale ==
    << <<RInt(60), RInt(0), RInt(0)>>,
       <<RInt(0), RInt(60), RInt(0)>>,
       <<RInt(0), RInt(0), RInt(0)>> >>

\* angle between camera and boresight
camera_rotation_angle == 0

\* rotation angles tried, in degrees; 37 stands for atan(3/4) = 36.87 deg,
\* whose cosine and sine are exactly 4/5 and 3/5
Angles == {0, 37, 90, 180, 270}

\* np.cos(np.radians(angle)), np.sin(np.radians(angle)), taken exactly
Cos(a) ==
    CASE a % 360 = 0 -> RInt(1)
      [] a % 360 = 37 -> Rat(4, 5)
      [] a % 360 = 90 -> RInt(0)
      [] a % 360 = 180 -> RInt(-1)
      [] a % 360 = 270 -> RInt(0)
Sin(a) ==
    CASE a % 360 = 0 -> RInt(0)
      [] a % 360 = 37 -> Rat(3, 5)
      [] a % 360 = 90 -> RInt(1)
      [] a % 360 = 180 -> RInt(0)
      [] a % 360 = 270 -> RInt(-1)

rotation_matrix(angle) ==
    << <<Cos(angle), RNeg(Sin(angle)), RInt(0)>>,
       <<Sin(angle), Cos(angle), RInt(0)>>,
       <<RInt(0), RInt(0), RInt(1)>> >>

\* ---- show_results ---------------------------------------------------------
\* variant: the focus correction is limited to 1 mm
ShowResultsClipped(zern, angle) ==
    LET rot_zern == MatMul(zern,
                           rotation_matrix(angle + camera_rotation_angle))
        raw == MatMul(rot_zern, sensitivity_matrix)
        z == raw[3]
        hexapod_offset ==
            [raw EXCEPT ![3] = IF z[1] > z[2] THEN RInt(1)
                               ELSE IF z[1] < -z[2] THEN RInt(-1) ELSE z]
        tel_offset == MatMul(hexapod_offset, hexapod_offset_scale)
    IN  [rot_zern |-> rot_zern, hexapod_offset |-> hexapod_offset,
         tel_offset |-> tel_offset]

\* rot_zern = zern . rotation_matrix(angle + camera_rotation_angle);
\* hexapod_offset = rot_zern . sensitivity_matrix;
\* tel_offset = hexapod_offset . hexapod_offset_scale
ShowResultsOf(zern, angle) ==
    LET rot_zern == MatMul(zern,
                           rotation_matrix(angle + camera_rotation_angle))
        hexapod_offset == MatMul(rot_zern, sensitivity_matrix)
        tel_offset == MatMul(hexapod_offset, hexapod_offset_scale)
    IN  [rot_zern |-> rot_zern, hexapod_offset |-> hexapod_offset,
         tel_offset |-> tel_offset]

\* wavefront coefficients tried (nm): coma-x, coma-y, defocus
ZernX == {0, 131, -262}
ZernY == {0, 131}
ZernZ == {0, 100, 4200, -8400}
Zerns == {<<RInt(x), RInt(y), RInt(z)>> : x \in ZernX, y \in ZernY,
                                          z \in ZernZ}

MapperInit ==
    /\ AcqIdle
    /\ MoreIdle
    /\ \E z \in Zerns, a \in Angles :
         mapper = [phase |-> "input", zern |-> z, angle |-> a,
                   out |-> ShowResultsOf(<<RInt(0), RInt(0), RInt(0)>>, 0)]
    /\ props = [phase |-> "idle"]
    /\ cutter = [phase |-> "idle"]
    /\ cwfs = [pc |-> "idle"]

\* self.show_results()
ShowResults ==
    /\ mapper.phase = "input"
    /\ mapper' = [mapper EXCEPT !.phase = "shown",
                                !.out = ShowResultsOf(mapper.zern,
                                                      mapper.angle)]
    /\ UNCHANGED <<acq_vars, props, cutter, cwfs, more_vars>>

\* new coefficients are measured
NewZern ==
    /\ mapper.phase = "shown"
    /\ \E z \in Zerns : mapper' = [mapper EXCEPT !.phase = "input",
                                                 !.zern = z]
    /\ UNCHANGED <<acq_vars, props, cutter, cwfs, more_vars>>

MapperNext ==
    \/ ShowResults
    \/ NewZern

MapperSpec == MapperInit /\ [][MapperNext]_vars

\* ---- C18 ----------------------------------------------------------------
PureDefocus(z) == z[1] = RInt(0) /\ z[2] = RInt(0)

\* C18 as stated: pure defocus (0, 0, A) at a rotation angle of 0 degrees
\* gives the hexapod correction x = 0, y = 0, z = A / 4200 mm.
C18_DefocusGivesPlusAOver4200 ==
    (mapper.phase = "shown" /\ PureDefocus(mapper.zern) /\ mapper.angle = 0)
        => mapper.out.hexapod_offset =
             <<RInt(0), RInt(0), RMul(mapper.zern[3], Rat(1, 4200))>>

\* C18 amended: pure defocus (0, 0, A) at a rotation angle of 0 degrees gives
\* the hexapod correction x = 0, y = 0, z = -A / 4200 mm (the sensitivity
\* entry is -1/4200).
C18_DefocusGivesMinusAOver4200 ==
    (mapper.phase = "shown" /\ PureDefocus(mapper.zern) /\ mapper.angle = 0)
        => mapper.out.hexapod_offset =
             <<RInt(0), RInt(0), RMul(mapper.zern[3], Rat(-1, 4200))>>

\* A = 4200 nm gives z = -1 mm
C18_Witness ==
    /\ mapper.phase = "shown"
    /\ mapper.zern = <<RInt(0), RInt(0), RInt(4200)>>
    /\ mapper.angle = 0
    /\ mapper.out.hexapod_offset = <<RInt(0), RInt(0), RInt(-1)>>

\* ---- C19 ----------------------------------------------------------------
ScaleFactors == {-1, 0, 2, 3}

\* C19: at a fixed rotation angle, the offsets computed for k times the
\* coefficients are k times the offsets computed for the coefficients, for
\* the hexapod correction and for the telescope offset.
C19_MapperLinear ==
    mapper.phase = "shown"
        => \A k \in ScaleFactors :
             LET scaled == ShowResultsOf(Scaled(k, mapper.zern),
                                         mapper.angle)
             IN  /\ scaled.hexapod_offset
                      = Scaled(k, mapper.out.hexapod_offset)
                 /\ scaled.tel_offset = Scaled(k, mapper.out.tel_offset)

\* coma and defocus together, at an angle that mixes x and y
C19_Witness ==
    /\ mapper.phase = "shown"
    /\ mapper.zern = <<RInt(131), RInt(131), RInt(4200)>>
    /\ mapper.angle = 37
    /\ mapper.out.hexapod_offset = <<Rat(7, 5), Rat(-1, 5), RInt(-1)>>

\* ---- C20 ----------------------------------------------------------------
\* C20: the telescope offset has third component 0 and its x and y
\* components are 60 times the hexapod x and y corrections.
C20_TelOffsetIsScaledXY ==
    mapper.phase = "shown"
        => /\ mapper.out.tel_offset[3] = RInt(0)
           /\ mapper.out.tel_offset[1]
                = RMul(RInt(60), mapper.out.hexapod_offset[1])
           /\ mapper.out.tel_offset[2]
                = RMul(RInt(60), mapper.out.hexapod_offset[2])

\* a correction with a focus component, whose sky offset still has z = 0
C20_Witness ==
    /\ mapper.phase = "shown"
    /\ mapper.angle = 90
    /\ mapper.out.hexapod_offset = <<RInt(1), RInt(-2), RInt(2)>>
    /\ mapper.out.tel_offset = <<RInt(60), RInt(-120), RInt(0)>>

(***************************************************************************)
(* The dz / binning properties (latiss_cwfs_align 139-237).  Lengths are   *)
(* integers: dz in tenths of a millimetre, the defocus offset written to   *)
(* the parameter file in units of 1e-4 m (dz * 0.041 m = dz10 * 41 units), *)
(* the pixel size in micrometres (10e-6 * binning m = 10 * binning um).    *)
(***************************************************************************)
MaxAssign == 3

\* self._dz = None, self.inst = None, self.algo = None before any assignment:
\* values of the right shape that no assignment produces.
NoDz == 0

NoInst == [offset |-> 0, pixel_size |-> 0, dim |-> 0]

NoAlgo == [model |-> "None", inst |-> NoInst]

default_dz == 8

default_binning == 2

_side == 192

reference_dz == 15

DzValues == {5, 8, 10, 15, 20}

BinningValues == {1, 2, 3, 4}

\* side property: int(self._side * self.dz / 1.5), for a dz that is set.
Side(p) == (_side * p._dz) \div reference_dz

\* Instrument(config_index, int(self.side * 2 / self.binning)) reading the
\* parameter file just written from _dz * 0.041 and 10e-6 * binning.
Instrument(p) ==
    [offset |-> p._dz * 41,
     pixel_size |-> 10 * p._binning,
     dim |-> (Side(p) * 2) \div p._binning]

\* Algorithm("exp", self.inst, 1)
Algorithm(inst) == [model |-> "exp", inst |-> inst]

\* dz setter: store the value, write the parameter file, rebuild inst, algo.
DzSetter(p, value) ==
    LET q == [p EXCEPT !._dz = value]
    IN  [q EXCEPT !.inst = Instrument(q),
                  !.algo = Algorithm(Instrument(q))]

\* dz getter: a dz never set is first set to the default, through the setter.
DzGetter(p) == IF p._dz = NoDz THEN DzSetter(p, default_dz) ELSE p

BinningSetterNoRebuild(p, value) == [p EXCEPT !._binning = value]

\* binning setter: self._binning = value; self.dz = self.dz
BinningSetter(p, value) ==
    LET q == DzGetter([p EXCEPT !._binning = value])
    IN  DzSetter(q, q._dz)

PropsInit ==
    /\ AcqIdle
    /\ MoreIdle
    /\ props = [phase |-> "live", _dz |-> NoDz, _binning |-> default_binning,
                inst |-> NoInst, algo |-> NoAlgo, assigned |-> <<>>]
    /\ mapper = [phase |-> "idle"]
    /\ cutter = [phase |-> "idle"]
    /\ cwfs = [pc |-> "idle"]

\* self.dz = value (configure, line 617, or any caller)
SetDz ==
    /\ props.phase = "live"
    /\ Len(props.assigned) < MaxAssign
    /\ \E value \in DzValues :
         props' = [DzSetter(props, value) EXCEPT
                     !.assigned = Append(@, <<"dz", value>>)]
    /\ UNCHANGED <<acq_vars, mapper, cutter, cwfs, more_vars>>

\* self.binning = value
SetBinning ==
    /\ props.phase = "live"
    /\ Len(props.assigned) < MaxAssign
    /\ \E value \in BinningValues :
         props' = [BinningSetter(props, value) EXCEPT
                     !.assigned = Append(@, <<"binning", value>>)]
    /\ UNCHANGED <<acq_vars, mapper, cutter, cwfs, more_vars>>

\* a read of self.dz (take_intra_extra 251, side 214)
ReadDz ==
    /\ props.phase = "live"
    /\ props' = DzGetter(props)
    /\ UNCHANGED <<acq_vars, mapper, cutter, cwfs, more_vars>>

PropsNext == SetDz \/ SetBinning \/ ReadDz

PropsSpec == PropsInit /\ [][PropsNext]_vars

\* The value of the last assignment to the named property, or dflt.
RECURSIVE LastAssigned(_, _, _)
LastAssigned(assigned, name, dflt) ==
    IF assigned = <<>> THEN dflt
    ELSE IF assigned[Len(assigned)][1] = name
         THEN assigned[Len(assigned)][2]
         ELSE LastAssigned(SubSeq(assigned, 1, Len(assigned) - 1), name, dflt)

\* C17: after any sequence of assignments to dz and binning, dz and binning
\* hold the values last assigned (dz the default 0.8 when it was never
\* assigned but a model was built), and inst and algo are the ones built
\* from that current pair: offset dz * 0.041, pixel size 10e-6 * binning,
\* dimension int(2 * side / binning) with side = int(192 * dz / 1.5).
C17_ModelBuiltFromCurrentPair ==
    (props.phase = "live" /\ props.assigned # <<>>) =>
        LET dz == LastAssigned(props.assigned, "dz", default_dz)
            binning == LastAssigned(props.assigned, "binning", default_binning)
            side == (192 * dz) \div 15
            inst == [offset |-> dz * 41, pixel_size |-> 10 * binning,
                     dim |-> (2 * side) \div binning]
        IN  /\ props._dz = dz
            /\ props._binning = binning
            /\ props.inst = inst
            /\ props.algo = [model |-> "exp", inst |-> inst]

C17_Witness ==
    /\ props.phase = "live"
    /\ props.assigned = <<<<"dz", 15>>, <<"binning", 4>>, <<"dz", 8>>>>
    /\ props.inst = [offset |-> 328, pixel_size |-> 40, dim |-> 51]


(***************************************************************************)
(* center_and_cut_images (latiss_cwfs_align 484-538).  Arrays are modelled *)
(* by their shapes <<rows, columns>>: the claims about the stamps are      *)
(* claims about shapes and about whether the call raises.                  *)
(***************************************************************************)
BBoxSizes == {300, 384, 500}

Centroids == {50, 150, 192, 250}

CutDzValues == {8, 15}

CutBinnings == {1, 2}

\* One index of a numpy slice on an axis of length n: a negative index
\* counts from the end, and the result is clipped to 0 .. n.
SliceIndex(i, n) ==
    LET j == IF i < 0 THEN i + n ELSE i
    IN  IF j < 0 THEN 0 ELSE IF j > n THEN n ELSE j

\* Length of arr[lo:hi] along an axis of length n.
SliceLen(lo, hi, n) ==
    LET a == SliceIndex(lo, n)
        b == SliceIndex(hi, n)
    IN  IF b > a THEN b - a ELSE 0

\* Shape of exp[ceny - side : ceny + side, cenx - side : cenx + side]
Square(c) ==
    <<SliceLen(c.ceny - Side(c), c.ceny + Side(c), c.h),
      SliceLen(c.cenx - Side(c), c.cenx + Side(c), c.w)>>

\* The window lies inside the array it is cut from.
WindowInside(c) ==
    /\ c.ceny - Side(c) >= 0
    /\ c.ceny + Side(c) <= c.h
    /\ c.cenx - Side(c) >= 0
    /\ c.cenx + Side(c) <= c.w

CutInputs ==
    {[phase |-> "ready", nsources |-> n, h |-> h, w |-> w,
      ceny |-> cy, cenx |-> cx, _dz |-> dz, _binning |-> b,
      outcome |-> "none", I1 |-> <<>>, I2 |-> <<>>] :
        n \in {0, 1}, h \in BBoxSizes, w \in BBoxSizes,
        cy \in Centroids, cx \in Centroids,
        dz \in CutDzValues, b \in CutBinnings}

CutterInit ==
    /\ AcqIdle
    /\ MoreIdle
    /\ cutter \in {c \in CutInputs : c.ceny < c.h /\ c.cenx < c.w}
    /\ mapper = [phase |-> "idle"]
    /\ props = [phase |-> "idle"]
    /\ cwfs = [pc |-> "idle"]

\* The whole call: I1 and I2 are reset, then for the selected source both
\* exposures are sliced; with binning # 1 line 524 evaluates copy.deepcopy,
\* and the module never imports copy, so the call raises NameError before
\* anything is appended.
CenterAndCutImages ==
    /\ cutter.phase = "ready"
    /\ cutter' =
         IF cutter.nsources = 0
         THEN [cutter EXCEPT !.phase = "done", !.outcome = "ok"]
         ELSE IF cutter._binning # 1
         THEN [cutter EXCEPT !.phase = "done", !.outcome = "NameError"]
         ELSE [cutter EXCEPT !.phase = "done", !.outcome = "ok",
                             !.I1 = <<Square(cutter)>>,
                             !.I2 = <<Square(cutter)>>]
    /\ UNCHANGED <<acq_vars, mapper, props, cwfs, more_vars>>

\* Another call, on another source or with other settings.
NewCut ==
    /\ cutter.phase = "done"
    /\ \E c \in CutInputs : c.ceny < c.h /\ c.cenx < c.w /\ cutter' = c
    /\ UNCHANGED <<acq_vars, mapper, props, cwfs, more_vars>>

CutterNext == CenterAndCutImages \/ NewCut

CutterSpec == CutterInit /\ [][CutterNext]_vars

\* C15: when the window is not fully inside the array it is cut from, the
\* call fails with an error instead of producing a stamp.
C15_WindowOutsideIsAnError ==
    (cutter.phase = "done" /\ cutter.nsources = 1 /\ ~WindowInside(cutter))
        => (cutter.outcome # "ok" /\ cutter.I1 = <<>> /\ cutter.I2 = <<>>)

\* C16: for a window inside the array the call produces an intra and an
\* extra stamp of identical shape, and with binning 2 a 384 x 384 window
\* (side 192) gives 192 x 192 stamps.
C16_StampsSameShapeAndBinned ==
    (cutter.phase = "done" /\ cutter.nsources = 1 /\ WindowInside(cutter))
        => /\ Len(cutter.I1) = 1
           /\ Len(cutter.I2) = 1
           /\ cutter.I1[1] = cutter.I2[1]
           /\ (cutter._binning = 2 /\ Side(cutter) = 192)
                 => cutter.I1[1] = <<192, 192>>


(***************************************************************************)
(* run_cwfs, take_intra_extra, hexapod_offset and get_isr_exposure         *)
(* (latiss_cwfs_align 239-419).  The script coroutine is at cwfs.pc; the   *)
(* functions handed to the executor run in worker threads, one task per    *)
(* stage, concurrently with the event loop.  positionUpdate events of the  *)
(* hexapod are issued by the hexapod (hex_issued), travel (hex_in_flight)  *)
(* and are delivered to the topic's queue (hex_queue).                     *)
(***************************************************************************)
Stages == {"isr_intra", "isr_extra", "select", "cut", "algo"}

IsrStages == {"isr_intra", "isr_extra"}

\* The statement after the await of each stage.
NextStage ==
    [t \in Stages |->
        CASE t = "isr_intra" -> "isr_extra"
          [] t = "isr_extra" -> "select"
          [] t = "select" -> "cut"
          [] t = "cut" -> "algo"
          [] t = "algo" -> "show"]

\* positionUpdate events: the one of hexapod_offset call k is k; an event of
\* a move made before the script ran is StaleUpdate.
StaleUpdate == 0

NoUpdate == -1

HexCalls == 1..3

HexOffsetsOneWay == <<-1, 1, 0>>

\* The z offsets of the three hexapod_offset calls, in units of dz.
HexOffsets == <<-1, 2, -1>>

\* Where each hexapod_offset call returns to.
HexReturn == <<"take_intra", "take_extra", "set_ids">>

NewIsr == [phase |-> "lookup", ntries |-> 0, lookups |-> 0,
           data_ref |-> "None"]

\* cmds_when_mapped before show_results has run
NotMapped == -1

CwfsInputs(stale) ==
    {[pc |-> entry, waiting |-> FALSE, error |-> "none",
      cmds_when_mapped |-> NotMapped,
      visit_ids |-> ids, _binning |-> b, _dz |-> dz,
      angle |-> "None", cwfs_selected_sources |-> 0,
      call |-> 0, acked |-> FALSE, z_cmds |-> <<>>,
      hex_issued |-> st, hex_in_flight |-> st, hex_queue |-> <<>>,
      pre_flush |-> {}, returns |-> <<>>, exposures |-> <<>>,
      tasks |-> [t \in Stages |-> "idle"],
      isr |-> [t \in IsrStages |-> NewIsr],
      intra_exposure |-> "None", extra_exposure |-> "None",
      detection_exp |-> "None", I1 |-> 0, I2 |-> 0, zern |-> "None",
      log |-> <<>>] :
        entry \in {"run", "run_cwfs"},
        ids \in {"None", "set"}, b \in CutBinnings, dz \in CutDzValues,
        st \in stale}

CwfsIdleOthers ==
    /\ AcqIdle
    /\ MoreIdle
    /\ mapper = [phase |-> "idle"]
    /\ props = [phase |-> "idle"]
    /\ cutter = [phase |-> "idle"]

CwfsInit == CwfsIdleOthers /\ cwfs \in CwfsInputs({{}})

\* The same, where a positionUpdate of an earlier move may still be
\* travelling when the script starts.
CwfsStaleInit == CwfsIdleOthers /\ cwfs \in CwfsInputs({{}, {StaleUpdate}})

CwfsRaise(why) == [cwfs EXCEPT !.pc = "raised", !.error = why]

CwfsOthers == UNCHANGED <<acq_vars, mapper, props, cutter, more_vars>>

\* async def run(self): pass
Run ==
    /\ cwfs.pc = "run"
    /\ cwfs' = [cwfs EXCEPT !.pc = "done"]
    /\ CwfsOthers

\* The commands sent to the telescope and instrument so far: hexapod
\* offsets and exposures.
FacadeCmds(c) == Len(c.z_cmds) + Len(c.exposures)

\* run_cwfs 373-383
RunCwfs ==
    /\ cwfs.pc = "run_cwfs"
    /\ cwfs' = [cwfs EXCEPT
                  !.cwfs_selected_sources = 0,
                  !.pc = IF cwfs.visit_ids = "None" THEN "hex_flush"
                         ELSE "isr_intra",
                  !.call = IF cwfs.visit_ids = "None" THEN 1 ELSE 0]
    /\ CwfsOthers

\* ---- the hexapod and its positionUpdate topic ----------------------------
\* The positionUpdate topic is read only inside take_intra_extra; what the
\* hexapod does after it returned is not followed.
TopicWatched ==
    cwfs.pc \in {"run", "run_cwfs", "hex_flush", "hex_cmd", "hex_next",
                 "take_intra", "take_extra", "encoders", "set_ids"}

\* The hexapod finishes the move of an acknowledged offset command and
\* issues its positionUpdate.
HexapodPositionUpdate ==
    /\ TopicWatched
    /\ \E k \in HexCalls :
         /\ k <= Len(cwfs.z_cmds)
         /\ k \notin cwfs.hex_issued
         /\ cwfs' = [cwfs EXCEPT !.hex_issued = @ \cup {k},
                                 !.hex_in_flight = @ \cup {k}]
    /\ CwfsOthers

\* An issued event reaches the script's queue.
HexapodDeliver ==
    /\ TopicWatched
    /\ \E e \in cwfs.hex_in_flight :
         cwfs' = [cwfs EXCEPT !.hex_in_flight = @ \ {e},
                              !.hex_queue = Append(@, e)]
    /\ CwfsOthers

\* ---- hexapod_offset ------------------------------------------------------
\* evt_positionUpdate.flush()
HexFlush ==
    /\ cwfs.pc = "hex_flush"
    /\ cwfs' = [cwfs EXCEPT !.hex_queue = <<>>,
                            !.pre_flush = cwfs.hex_issued,
                            !.acked = FALSE,
                            !.pc = "hex_cmd"]
    /\ CwfsOthers

\* await ataos.cmd_offset.set_start(z=offset, timeout=short_timeout)
HexCmdOffset ==
    /\ cwfs.pc = "hex_cmd"
    /\ \E ok \in BOOLEAN :
         cwfs' = IF ok
                 THEN [cwfs EXCEPT
                         !.z_cmds = Append(@, HexOffsets[cwfs.call] * cwfs._dz),
                         !.acked = TRUE,
                         !.pc = "hex_next"]
                 ELSE CwfsRaise("cmd_offset failed")
    /\ CwfsOthers

\* await evt_positionUpdate.next(flush=False, timeout=long_timeout): the
\* oldest unread event, or a timeout while there is none.
HexNext ==
    /\ cwfs.pc = "hex_next"
    /\ \/ /\ cwfs.hex_queue # <<>>
          /\ cwfs' = [cwfs EXCEPT
                        !.hex_queue = Tail(@),
                        !.returns =
                           Append(@, [call |-> cwfs.call,
                                      acked |-> cwfs.acked,
                                      event |-> Head(cwfs.hex_queue),
                                      fresh |-> Head(cwfs.hex_queue)
                                                  \notin cwfs.pre_flush]),
                        !.pc = HexReturn[cwfs.call]]
       \/ /\ cwfs.hex_queue = <<>>
          /\ cwfs' = CwfsRaise("positionUpdate timeout")
    /\ CwfsOthers

\* ---- take_intra_extra ----------------------------------------------------
\* The net z offset commanded so far.
NetZ(c) == SumSeq(c.z_cmds)

\* await latiss.take_engtest(...), intra (254-260) and extra (268-274)
TakeEngtest ==
    /\ cwfs.pc \in {"take_intra", "take_extra"}
    /\ \E ok \in BOOLEAN :
         cwfs' =
           IF ok
           THEN [cwfs EXCEPT
                   !.exposures =
                      Append(@, [image |-> IF cwfs.pc = "take_intra"
                                           THEN "intra" ELSE "extra",
                                 z |-> NetZ(cwfs),
                                 moves |-> Len(cwfs.returns)]),
                   !.pc = IF cwfs.pc = "take_intra" THEN "hex_flush"
                          ELSE "encoders",
                   !.call = IF cwfs.pc = "take_intra" THEN 2 ELSE @]
           ELSE CwfsRaise("take_engtest failed")
    /\ CwfsOthers

\* the two encoder reads and self.angle (276-282)
ReadEncoders ==
    /\ cwfs.pc = "encoders"
    /\ \E ok \in BOOLEAN :
         cwfs' = IF ok
                 THEN [cwfs EXCEPT !.angle = "set", !.pc = "hex_flush",
                                   !.call = 3]
                 ELSE CwfsRaise("aget failed")
    /\ CwfsOthers

\* intra_visit_id, extra_visit_id (289-293); back in run_cwfs
SetVisitIds ==
    /\ cwfs.pc = "set_ids"
    /\ cwfs' = [cwfs EXCEPT !.visit_ids = "set", !.pc = "isr_intra"]
    /\ CwfsOthers


\* ---- the executor --------------------------------------------------------
CwfsEv(kind, stage) == <<kind, stage>>

FutureNotAwaited(tasks, t) == TRUE

\* await loop.run_in_executor(...) resumes when the task has returned or
\* raised.
FutureDone(tasks, t) == tasks[t] \in {"done", "raised"}

\* loop.run_in_executor(executor, f, ...): hand f to a worker thread.  Before
\* the algo task, algo.reset(I1[0], I2[0]) indexes the stamp lists (406).
Submit ==
    /\ cwfs.pc \in Stages
    /\ ~cwfs.waiting
    /\ cwfs' =
         IF cwfs.pc = "algo" /\ (cwfs.I1 = 0 \/ cwfs.I2 = 0)
         THEN CwfsRaise("IndexError")
         ELSE [cwfs EXCEPT !.tasks[cwfs.pc] = "running",
                           !.waiting = TRUE,
                           !.log = Append(@, CwfsEv("start", cwfs.pc))]
    /\ CwfsOthers

\* The await returns: the exception of the task is raised in run_cwfs, or
\* its result is assigned and the statements up to the next await run
\* (388, 395-396, 401-402, 413-417).
Await ==
    /\ cwfs.pc \in Stages
    /\ cwfs.waiting
    /\ FutureDone(cwfs.tasks, cwfs.pc)
    /\ LET t == cwfs.pc
           c == [cwfs EXCEPT !.waiting = FALSE, !.pc = NextStage[t]]
       IN  cwfs' =
             IF cwfs.tasks[t] = "raised" THEN CwfsRaise(t)
             ELSE CASE t = "isr_intra" ->
                         [c EXCEPT !.intra_exposure = "set",
                                   !.detection_exp = "intra"]
                    [] t = "isr_extra" ->
                         [c EXCEPT !.extra_exposure = "set",
                                   !.detection_exp = "intra+extra"]
                    [] t = "algo" -> [c EXCEPT !.zern = "set"]
                    [] OTHER -> c
    /\ CwfsOthers

\* ---- get_isr_exposure, in a worker thread --------------------------------
RetryExhaustedOneLater(ntries) == ntries > 11

\* if ntries > 10: raise e
RetryExhausted(ntries) == ntries > 10

TaskEnds(t, state) ==
    [cwfs EXCEPT !.tasks[t] = state,
                 !.log = Append(@, CwfsEv(IF state = "done" THEN "end"
                                          ELSE "fail", t))]

\* One pass of the while loop: butler.dataRef returns a reference, returns
\* None, or raises RuntimeError (sleep, then re-raise or count and retry).
IsrLookup ==
    \E t \in IsrStages :
      /\ cwfs.tasks[t] = "running"
      /\ cwfs.isr[t].phase = "lookup"
      /\ \E outcome \in {"ref", "None", "RuntimeError"} :
           LET i == cwfs.isr[t]
               n == i.lookups + 1
           IN  cwfs' =
                 IF outcome = "RuntimeError"
                 THEN IF RetryExhausted(i.ntries)
                      THEN [TaskEnds(t, "raised") EXCEPT
                              !.isr[t].lookups = n,
                              !.isr[t].phase = "raised"]
                      ELSE [cwfs EXCEPT !.isr[t].lookups = n,
                                        !.isr[t].ntries = @ + 1]
                 ELSE [cwfs EXCEPT !.isr[t].lookups = n,
                                   !.isr[t].data_ref = outcome,
                                   !.isr[t].phase = "got_exposure"]
      /\ CwfsOthers

\* After the loop: isrTask.runDataRef(data_ref).exposure, or the error for a
\* missing reference.
IsrRunDataRef ==
    \E t \in IsrStages :
      /\ cwfs.tasks[t] = "running"
      /\ cwfs.isr[t].phase = "got_exposure"
      /\ \E ok \in BOOLEAN :
           cwfs' =
             IF ok /\ cwfs.isr[t].data_ref # "None"
             THEN [TaskEnds(t, "done") EXCEPT !.isr[t].phase = "returned"]
             ELSE [TaskEnds(t, "raised") EXCEPT !.isr[t].phase = "failed"]
      /\ CwfsOthers

\* ---- the other worker functions ------------------------------------------
\* select_cwfs_source: the detection task runs and one source is appended,
\* or it raises.
SelectCwfsSource ==
    /\ cwfs.tasks["select"] = "running"
    /\ \E ok \in BOOLEAN :
         cwfs' = IF ok /\ cwfs.detection_exp # "None"
                 THEN [TaskEnds("select", "done") EXCEPT
                         !.cwfs_selected_sources = 1]
                 ELSE TaskEnds("select", "raised")
    /\ CwfsOthers

\* center_and_cut_images: I1 and I2 are reset; with binning # 1 the call
\* raises NameError at line 524.
RunCenterAndCutImages ==
    /\ cwfs.tasks["cut"] = "running"
    /\ cwfs' =
         IF cwfs.cwfs_selected_sources > 0 /\ cwfs._binning # 1
         THEN [TaskEnds("cut", "raised") EXCEPT !.I1 = 0, !.I2 = 0]
         ELSE [TaskEnds("cut", "done") EXCEPT
                 !.I1 = cwfs.cwfs_selected_sources,
                 !.I2 = cwfs.cwfs_selected_sources]
    /\ CwfsOthers

\* algo.runIt(inst, I1[0], I2[0], "onAxis")
RunIt ==
    /\ cwfs.tasks["algo"] = "running"
    /\ \E ok \in BOOLEAN :
         cwfs' = TaskEnds("algo", IF ok THEN "done" ELSE "raised")
    /\ CwfsOthers

\* show_results (419): self.angle + camera_rotation_angle raises TypeError
\* while self.angle is None.
RunShowResults ==
    /\ cwfs.pc = "show"
    /\ cwfs' =
         IF cwfs.angle = "None"
         THEN [CwfsRaise("TypeError") EXCEPT
                 !.log = Append(@, CwfsEv("start", "show"))]
         ELSE [cwfs EXCEPT !.pc = "done",
                           !.cmds_when_mapped = FacadeCmds(cwfs),
                           !.log = Append(@, CwfsEv("start", "show"))]
    /\ CwfsOthers

CwfsNext ==
    \/ Run
    \/ RunCwfs
    \/ HexapodPositionUpdate
    \/ HexapodDeliver
    \/ HexFlush
    \/ HexCmdOffset
    \/ HexNext
    \/ TakeEngtest
    \/ ReadEncoders
    \/ SetVisitIds
    \/ Submit
    \/ Await
    \/ IsrLookup
    \/ IsrRunDataRef
    \/ SelectCwfsSource
    \/ RunCenterAndCutImages
    \/ RunIt
    \/ RunShowResults

CwfsSpec == CwfsInit /\ [][CwfsNext]_vars

CwfsStaleSpec == CwfsStaleInit /\ [][CwfsNext]_vars

\* The worker threads and the event loop keep running, and calls to the
\* butler and the CSCs return or raise.
CwfsFairSpec == CwfsSpec /\ WF_vars(CwfsNext)


CwfsLive == cwfs.pc # "idle"

\* ---- C12 ----------------------------------------------------------------
\* C12: every return of hexapod_offset follows the acknowledgement of its
\* offset command and the receipt of a positionUpdate event that the
\* hexapod issued after the flush made before the command; and each
\* exposure of take_intra_extra starts only after the hexapod_offset call
\* before it has returned in that way (the intra exposure after the first
\* call, the extra exposure after the second).
C12_ReturnsAfterAckAndFreshUpdate ==
    CwfsLive =>
        /\ \A i \in DOMAIN cwfs.returns :
             /\ cwfs.returns[i].call = i
             /\ cwfs.returns[i].acked
             /\ cwfs.returns[i].event # NoUpdate
             /\ cwfs.returns[i].fresh
        /\ \A i \in DOMAIN cwfs.exposures : cwfs.exposures[i].moves = i
        /\ cwfs.pc = "take_intra" => Len(cwfs.returns) = 1
        /\ cwfs.pc = "take_extra" => Len(cwfs.returns) = 2

\* ---- C13 ----------------------------------------------------------------
IsrEnded(t) == cwfs.tasks[t] \in {"done", "raised"}

\* C13: get_isr_exposure makes at most 12 lookups.  While it is retrying,
\* every lookup so far raised RuntimeError; it leaves the loop on the first
\* lookup that does not raise; it re-raises the RuntimeError exactly on the
\* 12th failed lookup, when 11 failures were counted before; and every call
\* ends (returns or raises).
C13_BoundedRetries ==
    /\ [](CwfsLive =>
            \A t \in IsrStages :
              LET i == cwfs.isr[t]
              IN  /\ i.lookups <= 12
                  /\ i.phase = "lookup" =>
                        (i.lookups = i.ntries /\ i.ntries <= 11)
                  /\ i.phase \in {"got_exposure", "returned", "failed"} =>
                        i.lookups = i.ntries + 1
                  /\ i.phase = "raised" =>
                        (i.lookups = 12 /\ i.ntries = 11
                           /\ cwfs.tasks[t] = "raised"))
    /\ \A t \in IsrStages : (cwfs.tasks[t] = "running") ~> IsrEnded(t)

C13_Witness ==
    /\ CwfsLive
    /\ cwfs.isr["isr_intra"].phase = "returned"
    /\ cwfs.isr["isr_intra"].lookups = 3
    /\ cwfs.isr["isr_extra"].phase = "raised"
    /\ cwfs.isr["isr_extra"].lookups = 12
    /\ cwfs.pc = "raised"

\* ---- C14 ----------------------------------------------------------------
CwfsLogged(e) == \E i \in DOMAIN cwfs.log : cwfs.log[i] = e

\* Every occurrence of e2 in the log has an e1 before it.
CwfsBefore(e1, e2) ==
    \A j \in DOMAIN cwfs.log :
        cwfs.log[j] = e2 => \E i \in 1..(j - 1) : cwfs.log[i] = e1

\* C14: the stages of run_cwfs start in program order, each after the one
\* before it has returned: source selection after both ISR exposures were
\* retrieved, stamp extraction after selection, the wavefront algorithm
\* after stamp extraction with both stamps I1[0], I2[0] present, and
\* show_results after the algorithm with the zernike coefficients set.
C14_StagesInProgramOrder ==
    CwfsLive =>
        /\ CwfsBefore(CwfsEv("end", "isr_intra"), CwfsEv("start", "isr_extra"))
        /\ CwfsBefore(CwfsEv("end", "isr_intra"), CwfsEv("start", "select"))
        /\ CwfsBefore(CwfsEv("end", "isr_extra"), CwfsEv("start", "select"))
        /\ CwfsLogged(CwfsEv("start", "select")) =>
              (cwfs.intra_exposure = "set" /\ cwfs.extra_exposure = "set")
        /\ CwfsBefore(CwfsEv("end", "select"), CwfsEv("start", "cut"))
        /\ CwfsBefore(CwfsEv("end", "cut"), CwfsEv("start", "algo"))
        /\ CwfsLogged(CwfsEv("start", "algo")) =>
              (cwfs.I1 >= 1 /\ cwfs.I2 >= 1)
        /\ CwfsBefore(CwfsEv("end", "algo"), CwfsEv("start", "show"))
        /\ CwfsLogged(CwfsEv("start", "show")) => cwfs.zern = "set"

C14_Witness ==
    /\ CwfsLive
    /\ cwfs.pc = "done"
    /\ Len(cwfs.exposures) = 2
    /\ cwfs.log = <<CwfsEv("start", "isr_intra"), CwfsEv("end", "isr_intra"),
                    CwfsEv("start", "isr_extra"), CwfsEv("end", "isr_extra"),
                    CwfsEv("start", "select"), CwfsEv("end", "select"),
                    CwfsEv("start", "cut"), CwfsEv("end", "cut"),
                    CwfsEv("start", "algo"), CwfsEv("end", "algo"),
                    CwfsEv("start", "show")>>


\* ---- C21 ----------------------------------------------------------------
\* The z offsets take_intra_extra commands, for the configured dz.
ExpectedZCmds(c) == <<-c._dz, 2 * c._dz, -c._dz>>

\* C21: the acknowledged hexapod z offsets are -dz, +2 dz, -dz in that
\* order; the intra exposure is taken while the net offset is -dz and the
\* extra exposure while it is +dz; and once the third hexapod_offset call
\* has returned (the normal return of take_intra_extra) the net commanded
\* offset is 0.
C21_IntraExtraOffsets ==
    CwfsLive =>
        /\ Len(cwfs.z_cmds) <= 3
        /\ cwfs.z_cmds = SubSeq(ExpectedZCmds(cwfs), 1, Len(cwfs.z_cmds))
        /\ Len(cwfs.exposures) <= 2
        /\ Len(cwfs.exposures) >= 1 =>
              cwfs.exposures[1] = [image |-> "intra", z |-> -cwfs._dz,
                                   moves |-> 1]
        /\ Len(cwfs.exposures) = 2 =>
              cwfs.exposures[2] = [image |-> "extra", z |-> cwfs._dz,
                                   moves |-> 2]
        /\ Len(cwfs.returns) = 3 =>
              (Len(cwfs.exposures) = 2 /\ Len(cwfs.z_cmds) = 3
                 /\ NetZ(cwfs) = 0)
        /\ (cwfs.visit_ids = "set" /\ cwfs.z_cmds # <<>>) =>
              (Len(cwfs.returns) = 3 /\ NetZ(cwfs) = 0)

C21_Witness ==
    /\ CwfsLive
    /\ cwfs.pc = "isr_intra"
    /\ cwfs.z_cmds = <<-15, 30, -15>>
    /\ Len(cwfs.exposures) = 2
    /\ cwfs.exposures[2].z = 15
    /\ NetZ(cwfs) = 0


(***************************************************************************)
(* select_cwfs_source (latiss_cwfs_align 421-482).  A detected source is   *)
(* its footprint bounding box dimensions x, y and the sum of the pixels of *)
(* the detection exposure inside that box.                                 *)
(***************************************************************************)
MaxSources == 3

pre_side == 300

BBoxDims == {299, 300}

Fluxes == {0, 5, 9}

Sources == [x : BBoxDims, y : BBoxDims, flux : Fluxes]

RECURSIVE SeqsUpTo(_, _)
SeqsUpTo(S, n) ==
    IF n = 0 THEN {<<>>}
    ELSE LET shorter == SeqsUpTo(S, n - 1)
         IN  shorter \cup {Append(q, e) : q \in {r \in shorter : Len(r) = n - 1},
                                          e \in S}

\* bbox.getDimensions().x < min_size or bbox.getDimensions().y < min_size
Undersized(source) == source.x < pre_side \/ source.y < pre_side

\* sum_source_flux (446-450)
sum_source_flux(source) == IF Undersized(source) THEN -1 ELSE source.flux

BrighterOrEqual(flux_i, flux_selected) == flux_i >= flux_selected

\* if flux_i > flux_selected
Brighter(flux_i, flux_selected) == flux_i > flux_selected

\* The loop for i in range(1, len(result.sources)), with 0-based indices:
\* the index selected after looking at sources i, i + 1, ...
RECURSIVE SelectLoop(_, _, _, _)
SelectLoop(sources, i, selected_source, flux_selected) ==
    IF i >= Len(sources) THEN selected_source
    ELSE LET flux_i == sum_source_flux(sources[i + 1])
         IN  IF Brighter(flux_i, flux_selected)
             THEN SelectLoop(sources, i + 1, i, flux_i)
             ELSE SelectLoop(sources, i + 1, selected_source, flux_selected)

SelectorInputs ==
    {[phase |-> "ready", detection_exp |-> d, sources |-> q,
      cwfs_selected_sources |-> <<>>, source_selection_result |-> "None",
      outcome |-> "none"] :
        d \in {"None", "set"}, q \in SeqsUpTo(Sources, MaxSources)}

SelectorInit ==
    /\ AcqIdle
    /\ mapper = [phase |-> "idle"]
    /\ props = [phase |-> "idle"]
    /\ cutter = [phase |-> "idle"]
    /\ cwfs = [pc |-> "idle"]
    /\ selector \in SelectorInputs
    /\ takeseq = [pc |-> "idle"]
    /\ laser = [pc |-> "idle"]

\* The whole call.  Without a detection exposure it raises the RuntimeError
\* of line 425; with an empty detection result, result.sources[0] (line 453)
\* raises the catalog's index error; otherwise the selected index is
\* appended to cwfs_selected_sources unless it is already there.
SelectSource ==
    /\ selector.phase = "ready"
    /\ selector' =
         IF selector.detection_exp = "None"
         THEN [selector EXCEPT !.phase = "done",
                               !.outcome = "No detection exposure"]
         ELSE IF selector.sources = <<>>
         THEN [selector EXCEPT !.phase = "done", !.outcome = "IndexError"]
         ELSE LET selected_source ==
                    SelectLoop(selector.sources, 1, 0,
                               sum_source_flux(selector.sources[1]))
                  already == \E k \in DOMAIN selector.cwfs_selected_sources :
                               selector.cwfs_selected_sources[k]
                                 = selected_source
              IN  [selector EXCEPT
                     !.phase = "done",
                     !.outcome = "ok",
                     !.source_selection_result = "set",
                     !.cwfs_selected_sources =
                        IF already THEN @ ELSE Append(@, selected_source)]
    /\ UNCHANGED <<acq_vars, mapper, props, cutter, cwfs, takeseq, laser>>

\* Another run_cwfs: the selection list is reset (373) and detection finds
\* one more source.
NewDetection ==
    /\ selector.phase = "done"
    /\ Len(selector.sources) < MaxSources
    /\ \E source \in Sources :
         selector' = [phase |-> "ready", detection_exp |-> "set",
                      sources |-> Append(selector.sources, source),
                      cwfs_selected_sources |-> <<>>,
                      source_selection_result |-> "None",
                      outcome |-> "none"]
    /\ UNCHANGED <<acq_vars, mapper, props, cutter, cwfs, takeseq, laser>>

SelectorNext == SelectSource \/ NewDetection

SelectorSpec == SelectorInit /\ [][SelectorNext]_vars

SelectorDone == selector.phase = "done"

\* ---- C22 ----------------------------------------------------------------
\* C22: when detection returns zero sources, select_cwfs_source fails with
\* an error that states that no sources were detected.
C22_ZeroSourcesReported ==
    (SelectorDone /\ selector.detection_exp = "set"
       /\ selector.sources = <<>>)
        => selector.outcome = "No sources detected"

\* ---- C29 ----------------------------------------------------------------
\* The 0-based indices of the sources that are not undersized.
Eligible(sources) ==
    {i \in 0..(Len(sources) - 1) : ~Undersized(sources[i + 1])}

C30_UndersizedNeverSelected ==
    (SelectorDone /\ selector.sources # <<>>)
        => \A k \in DOMAIN selector.cwfs_selected_sources :
             ~Undersized(selector.sources[selector.cwfs_selected_sources[k]
                                            + 1])


\* ---- C23 ----------------------------------------------------------------
\* C23: once show_results has produced the hexapod correction and the run
\* has ended, a command has been sent to the telescope or the hexapod after
\* the correction was produced.
C23_CorrectionCommandSent ==
    (CwfsLive /\ cwfs.pc = "done" /\ cwfs.cmds_when_mapped # NotMapped)
        => FacadeCmds(cwfs) > cwfs.cmds_when_mapped


\* ---- C24 ----------------------------------------------------------------
\* the events only latiss_acquire logs
AcqEvs == LoopEvs \cup {"slew", "verify", "point", "acquired"}

AcqPcs == {"slew", "acq_focus", "loop", "take", "taking", "wait_oods",
           "get_image", "qm", "check", "measure", "offset", "after_loop",
           "verify", "point", "acq_remove"}

\* C24: latiss_acquire runs only when do_acquire is true; the sequence runs
\* only when do_take_sequence is true and, when an acquisition was asked
\* for, only after it has returned without raising; nothing of the
\* acquisition follows a sequence exposure; and with both flags false no
\* command at all is issued.
C24_AcquireThenSequence ==
    /\ (pc \in AcqPcs \/ \E i \in DOMAIN log : log[i].ev \in AcqEvs)
          => config.do_acquire
    /\ (pc \in {"seq_focus", "seq_take"} \/ NumEv("seq_expose") > 0)
          => /\ config.do_take_sequence
             /\ config.do_acquire => NumEv("acquired") = 1
    /\ \A j \in DOMAIN log :
          log[j].ev = "seq_expose" =>
             /\ \A i \in 1..(j - 1) : log[i].ev # "raise"
             /\ config.do_acquire =>
                   \E i \in 1..(j - 1) : log[i].ev = "acquired"
             /\ \A i \in (j + 1)..Len(log) : log[i].ev \notin AcqEvs
    /\ (pc = "raised" /\ config.do_acquire /\ NumEv("acquired") = 0)
          => NumEv("seq_expose") = 0
    /\ (~config.do_acquire /\ ~config.do_take_sequence)
          => /\ pc \in {"arun", "done"}
             /\ log = <<>>
             /\ focus_cmds = <<>>
             /\ offset_cmds = <<>>

C24_Witness ==
    /\ pc = "done"
    /\ config.do_acquire
    /\ config.do_take_sequence
    /\ config.nvisits = 2
    /\ NumEv("acquired") = 1
    /\ NumEv("seq_expose") = 2
    /\ log[Len(log)].ev \in {"seq_expose", "remove"}


(***************************************************************************)
(* LatissTakeSequence (auxtel/latiss_take_sequence 200-259).  A configured *)
(* value is a string (its characters), a number or a list of values, as    *)
(* the schema allows; len() and indexing act on it as Python does.         *)
(***************************************************************************)
Str(chars) == [kind |-> "str", val |-> chars]

Num(n) == [kind |-> "num", val |-> n]

List(items) == [kind |-> "list", val |-> items]

\* a == b for two configured values
SameValue(a, b) == a.kind = b.kind /\ a.val = b.val

\* len(x): defined for strings and lists
HasLen(x) == x.kind \in {"str", "list"}

PyLen(x) == Len(x.val)

\* x[i], 0-based: an item of a list, a one-character string of a string
Subscriptable(x, i) == HasLen(x) /\ i < Len(x.val)

PyItem(x, i) == IF x.kind = "str" THEN Str(<<x.val[i + 1]>>)
                ELSE x.val[i + 1]

FilterValues ==
    {Str(<<"r">>), Str(<<"B", "G">>), List(<<Str(<<"B", "G">>)>>),
     List(<<Str(<<"r">>), Str(<<"B", "G">>)>>)}

ExposureTimeValues ==
    {Num(2), List(<<Num(2)>>), List(<<Num(2), Num(5)>>)}

TakeSeqConfigs ==
    [filter : FilterValues, grating : FilterValues,
     exposure_time : ExposureTimeValues]

TakeSeqInit ==
    /\ AcqIdle
    /\ mapper = [phase |-> "idle"]
    /\ props = [phase |-> "idle"]
    /\ cutter = [phase |-> "idle"]
    /\ cwfs = [pc |-> "idle"]
    /\ selector = [phase |-> "idle"]
    /\ laser = [pc |-> "idle"]
    /\ \E config_in \in TakeSeqConfigs :
         takeseq = [pc |-> "configure", config |-> config_in,
                    filter |-> Str(<<>>), grating |-> Str(<<>>),
                    exposure_time |-> Num(0),
                    exposures |-> <<>>, error |-> "none"]

TakeSeqOthers ==
    UNCHANGED <<acq_vars, mapper, props, cutter, cwfs, selector, laser>>

\* configure: the values are stored as configured; the butler is made
TakeSeqConfigure ==
    /\ takeseq.pc = "configure"
    /\ \E ok \in BOOLEAN :
         takeseq' =
           IF ok
           THEN [takeseq EXCEPT !.filter = takeseq.config.filter,
                                !.grating = takeseq.config.grating,
                                !.exposure_time = takeseq.config.exposure_time,
                                !.pc = "run"]
           ELSE [takeseq EXCEPT !.pc = "raised", !.error = "Butler"]
    /\ TakeSeqOthers

\* The tuples appended for i = from .. n - 1, or the exception of the first
\* index at which exposure_time[i] or grating[i] cannot be taken.
RECURSIVE BuildExposures(_, _, _, _)
BuildExposures(t, i, n, built) ==
    IF i >= n THEN [error |-> "none", exposures |-> built]
    ELSE IF ~HasLen(t.exposure_time)
    THEN [error |-> "TypeError", exposures |-> built]
    ELSE IF ~Subscriptable(t.exposure_time, i) \/ ~Subscriptable(t.grating, i)
    THEN [error |-> "IndexError", exposures |-> built]
    ELSE BuildExposures(t, i + 1, n,
                        Append(built, <<PyItem(t.filter, i),
                                        PyItem(t.exposure_time, i),
                                        PyItem(t.grating, i)>>))

\* run, lines 246-248: for i in range(len(self.filter)): exposures.append(
\* (self.filter[i], self.exposure_time[i], self.grating[i]))
BuildExposuresOf(t) == BuildExposures(t, 0, PyLen(t.filter), <<>>)

TakeSeqRun ==
    /\ takeseq.pc = "run"
    /\ LET b == BuildExposuresOf(takeseq)
       IN  takeseq' =
             IF b.error = "none"
             THEN [takeseq EXCEPT !.exposures = b.exposures,
                                  !.pc = "take_data"]
             ELSE [takeseq EXCEPT !.exposures = b.exposures,
                                  !.pc = "raised", !.error = b.error]
    /\ TakeSeqOthers

\* await calibrationStarVisit.takeData(..., exposures, ...)
TakeData ==
    /\ takeseq.pc = "take_data"
    /\ \E ok \in BOOLEAN :
         takeseq' = IF ok THEN [takeseq EXCEPT !.pc = "done"]
                    ELSE [takeseq EXCEPT !.pc = "raised",
                                         !.error = "takeData"]
    /\ TakeSeqOthers

TakeSeqNext == TakeSeqConfigure \/ TakeSeqRun \/ TakeData

TakeSeqSpec == TakeSeqInit /\ [][TakeSeqNext]_vars

\* ---- C25 ----------------------------------------------------------------
Single(x) == x.kind # "list"

\* The number of exposures configured: the length of the arrays, 1 when
\* every value is single.
NumExposures(c) ==
    IF ~Single(c.filter) THEN PyLen(c.filter)
    ELSE IF ~Single(c.grating) THEN PyLen(c.grating)
    ELSE IF ~Single(c.exposure_time) THEN PyLen(c.exposure_time)
    ELSE 1

\* The arrays configured have one length.
ConsistentArrays(c) ==
    \A x \in {c.filter, c.grating, c.exposure_time} :
        ~Single(x) => PyLen(x) = NumExposures(c)

\* C25: when filter, grating or exposure_time is configured as a single
\* value, run builds one (filter, exposure_time, grating) tuple per
\* exposure, and every tuple has that single value in its place.
C25_SingleValueUsedForEveryExposure ==
    LET c == takeseq.config
    IN  (takeseq.pc \notin {"idle", "configure", "run"}
           /\ takeseq.error # "Butler"
           /\ ConsistentArrays(c)
           /\ (Single(c.filter) \/ Single(c.grating)
                 \/ Single(c.exposure_time)))
            => /\ takeseq.error \notin {"TypeError", "IndexError"}
               /\ Len(takeseq.exposures) = NumExposures(c)
               /\ \A k \in DOMAIN takeseq.exposures :
                    /\ Single(c.filter) =>
                          SameValue(takeseq.exposures[k][1], c.filter)
                    /\ Single(c.exposure_time) =>
                          SameValue(takeseq.exposures[k][2], c.exposure_time)
                    /\ Single(c.grating) =>
                          SameValue(takeseq.exposures[k][3], c.grating)


(***************************************************************************)
(* LaserCoordination.run (coordination/script 66-118).  The coroutine of   *)
(* run is at laser.pc; while it is suspended in an await the event loop    *)
(* runs the task asyncio.gather made of the setup coroutines.  salobj is   *)
(* not part of the repository: cmd.start(...) may send the command when it *)
(* is called or when the awaitable it returns first runs (eager_start).    *)
(***************************************************************************)
MaxStagePos == 3

StepValues == {1, 2}

WavelengthRanges == {<<>>, <<500>>, <<500, 501>>}

\* range(start, stop, step) for step > 0
RECURSIVE Range(_, _, _)
Range(start, stop, step) ==
    IF start >= stop THEN <<>>
    ELSE <<start>> \o Range(start + step, stop, step)

LaserEv(kind, cmd, arg) == [kind |-> kind, cmd |-> cmd, arg |-> arg]

LaserInputs ==
    {[pc |-> "run", eager_start |-> e,
      tunable_laser_set |-> t, electrometer_set |-> m,
      wavelengths |-> IF t THEN wl ELSE <<525>>,
      positions |-> Range(1, mx, st),
      w |-> 1, i1 |-> 1, i2 |-> 1,
      setup_task |-> "none", events |-> <<>>, data_array |-> <<>>,
      error |-> "none", ext_failed |-> FALSE] :
        e \in BOOLEAN, t \in BOOLEAN, m \in BOOLEAN,
        wl \in WavelengthRanges, mx \in 1..MaxStagePos, st \in StepValues}

LaserInit ==
    /\ AcqIdle
    /\ mapper = [phase |-> "idle"]
    /\ props = [phase |-> "idle"]
    /\ cutter = [phase |-> "idle"]
    /\ cwfs = [pc |-> "idle"]
    /\ selector = [phase |-> "idle"]
    /\ takeseq = [pc |-> "idle"]
    /\ laser \in LaserInputs

LaserOthers ==
    UNCHANGED <<acq_vars, mapper, props, cutter, cwfs, selector, takeseq>>

\* run is suspended in an await: the event loop runs other tasks
LaserSuspended == laser.pc \in {"await_ls1", "await_ls2", "await_stop"}

LaserRaise(l, why, external) ==
    [l EXCEPT !.pc = "raised", !.error = why, !.ext_failed = external]

\* After the loops: stopPropagate if the laser is used, then the file.
LaserAfterLoops(l) == [l EXCEPT !.pc = IF l.tunable_laser_set THEN "stop"
                                       ELSE "write"]

\* The first grid point, if there is one.
LaserEnterLoops(l) ==
    IF l.wavelengths = <<>> \/ l.positions = <<>> THEN LaserAfterLoops(l)
    ELSE [l EXCEPT !.pc = "ls1", !.w = 1, !.i1 = 1, !.i2 = 1]

\* The next grid point in the nested loops, or the end of the loops.
LaserAdvance(l) ==
    IF l.i2 < Len(l.positions) THEN [l EXCEPT !.pc = "ls2", !.i2 = @ + 1]
    ELSE IF l.i1 < Len(l.positions)
    THEN [l EXCEPT !.pc = "ls1", !.i1 = @ + 1, !.i2 = 1]
    ELSE IF l.w < Len(l.wavelengths)
    THEN [l EXCEPT !.pc = "ls1", !.w = @ + 1, !.i1 = 1, !.i2 = 1]
    ELSE LaserAfterLoops(l)

\* Lines 68-88, up to the first loop.  The start(...) calls make the setup
\* awaitables; asyncio.ensure_future(*[a, b]) (line 79) passes the second
\* one as a positional argument, which ensure_future(obj, *, loop=None)
\* does not take: with the electrometer enabled the call raises TypeError,
\* outside the try.  Otherwise asyncio.gather schedules the setup task and
\* is not awaited.
LaserSetup ==
    /\ laser.pc = "run"
    /\ LET sent == (IF laser.eager_start /\ laser.tunable_laser_set
                    THEN <<LaserEv("issue", "startPropagate", 0)>>
                    ELSE <<>>)
                   \o (IF laser.eager_start /\ laser.electrometer_set
                       THEN <<LaserEv("issue", "setMode", 1),
                              LaserEv("issue", "setIntegrationTime", 0)>>
                       ELSE <<>>)
           l == [laser EXCEPT !.events = @ \o sent]
       IN  laser' =
             IF laser.electrometer_set
             THEN LaserRaise(l, "TypeError", FALSE)
             ELSE LaserEnterLoops(
                    [l EXCEPT !.setup_task =
                                 IF ~laser.tunable_laser_set THEN "none"
                                 ELSE IF laser.eager_start THEN "waiting"
                                 ELSE "pending"])
    /\ LaserOthers

\* The setup task gets to run: startPropagate is sent, if start did not
\* send it already.
PropagateStart ==
    /\ LaserSuspended
    /\ laser.setup_task = "pending"
    /\ laser' = [laser EXCEPT
                   !.setup_task = "waiting",
                   !.events = Append(@, LaserEv("issue", "startPropagate", 0))]
    /\ LaserOthers

\* The laser acknowledges startPropagate, or the command fails; the result
\* stays in the future of gather, which run never awaits.
PropagateAck ==
    /\ LaserSuspended
    /\ laser.setup_task = "waiting"
    /\ \E ok \in BOOLEAN :
         laser' = IF ok
                  THEN [laser EXCEPT
                          !.setup_task = "done",
                          !.events = Append(@, LaserEv("ack",
                                                       "startPropagate", 0))]
                  ELSE [laser EXCEPT !.setup_task = "failed"]
    /\ LaserOthers

\* linear_stage_1.cmd_moveAbsolute.set(distance=ls_pos); start(...)
MoveStage1 ==
    /\ laser.pc = "ls1"
    /\ laser' = [laser EXCEPT
                   !.pc = "await_ls1",
                   !.events = Append(@, LaserEv("issue", "moveAbsolute1",
                                                laser.positions[laser.i1]))]
    /\ LaserOthers

\* move_ls1_ack = await ...; the checkpoint
AckStage1 ==
    /\ laser.pc = "await_ls1"
    /\ \E ok \in BOOLEAN :
         laser' = IF ok
                  THEN [laser EXCEPT
                          !.pc = "ls2", !.i2 = 1,
                          !.events = Append(@, LaserEv("ack", "moveAbsolute1",
                                                 laser.positions[laser.i1]))]
                  ELSE LaserRaise(laser, "moveAbsolute1", TRUE)
    /\ LaserOthers

\* linear_stage_2.cmd_moveAbsolute.set(distance=ls_2_pos); start(...)
MoveStage2 ==
    /\ laser.pc = "ls2"
    /\ laser' = [laser EXCEPT
                   !.pc = "await_ls2",
                   !.events = Append(@, LaserEv("issue", "moveAbsolute2",
                                                laser.positions[laser.i2]))]
    /\ LaserOthers

\* move_ls2_ack = await ...; the checkpoint; with the electrometer disabled
\* the loop goes on to the next grid point
AckStage2 ==
    /\ laser.pc = "await_ls2"
    /\ \E ok \in BOOLEAN :
         laser' =
           IF ok
           THEN LET l == [laser EXCEPT
                            !.events = Append(@, LaserEv("ack",
                                                   "moveAbsolute2",
                                                   laser.positions[laser.i2]))]
                IN  IF laser.electrometer_set THEN [l EXCEPT !.pc = "scan"]
                    ELSE LaserAdvance(l)
           ELSE LaserRaise(laser, "moveAbsolute2", TRUE)
    /\ LaserOthers

\* tunable_laser.cmd_stopPropagate.set(); start(...)
StopPropagate ==
    /\ laser.pc = "stop"
    /\ laser' = [laser EXCEPT
                   !.pc = "await_stop",
                   !.events = Append(@, LaserEv("issue", "stopPropagate", 0))]
    /\ LaserOthers

\* stop_propagate_ack = await ...
AckStopPropagate ==
    /\ laser.pc = "await_stop"
    /\ \E ok \in BOOLEAN :
         laser' = IF ok
                  THEN [laser EXCEPT
                          !.pc = "write",
                          !.events = Append(@, LaserEv("ack",
                                                       "stopPropagate", 0))]
                  ELSE LaserRaise(laser, "stopPropagate", TRUE)
    /\ LaserOthers

\* the rows of data_array are written to laser_coordination.txt
WriteFile ==
    /\ laser.pc = "write"
    /\ \E ok \in BOOLEAN :
         laser' = IF ok THEN [laser EXCEPT !.pc = "done"]
                  ELSE LaserRaise(laser, "open", TRUE)
    /\ LaserOthers

LaserNext ==
    \/ LaserSetup
    \/ PropagateStart
    \/ PropagateAck
    \/ MoveStage1
    \/ AckStage1
    \/ MoveStage2
    \/ AckStage2
    \/ StopPropagate
    \/ AckStopPropagate
    \/ WriteFile

LaserSpec == LaserInit /\ [][LaserNext]_vars


\* ---- C26 ----------------------------------------------------------------
\* The grid in visiting order: wavelength, then stage-1 position, then
\* stage-2 position.
Grid(l) ==
    LET np == Len(l.positions)
    IN  [k \in 1..(Len(l.wavelengths) * np * np) |->
            <<l.wavelengths[((k - 1) \div (np * np)) + 1],
              l.positions[(((k - 1) \div np) % np) + 1],
              l.positions[((k - 1) % np) + 1]>>]

IsMove(e) == e.kind = "issue" /\ e.cmd \in {"moveAbsolute1", "moveAbsolute2"}

\* C26: with the electrometer enabled, a run in which no command failed
\* ends with exactly one reading row per grid point, in visiting order;
\* every stage move is acknowledged before the next command is sent; and
\* with the electrometer disabled no row is recorded.
C26_OneReadingPerGridPoint ==
    laser.pc # "idle" =>
        /\ (laser.electrometer_set /\ laser.pc \in {"done", "raised"}
              /\ ~laser.ext_failed)
              => /\ Len(laser.data_array) = Len(Grid(laser))
                 /\ \A k \in DOMAIN laser.data_array :
                      SubSeq(laser.data_array[k], 1, 3) = Grid(laser)[k]
        /\ \A j \in DOMAIN laser.events :
              IsMove(laser.events[j]) =>
                 \/ j = Len(laser.events)
                 \/ laser.events[j + 1]
                      = [laser.events[j] EXCEPT !.kind = "ack"]
                 \/ laser.events[j + 1].cmd = "startPropagate"
        /\ ~laser.electrometer_set => laser.data_array = <<>>

\* ---- C27 ----------------------------------------------------------------
\* C27: with the tunable laser enabled, every linear-stage move command is
\* sent after startPropagate has been sent and acknowledged.
C27_PropagatingBeforeMoves ==
    (laser.pc # "idle" /\ laser.tunable_laser_set) =>
        \A j \in DOMAIN laser.events :
            IsMove(laser.events[j]) =>
                \E i \in 1..(j - 1) :
                    laser.events[i] = LaserEv("ack", "startPropagate", 0)


\* ---- C28 ----------------------------------------------------------------
\* The positions of the events named e in the log.
EvAt(e) == {i \in DOMAIN log : log[i].ev = e}

\* C28: at most one verification exposure is taken; it is taken only with
\* target_pointing_verification true and only after the loop converged,
\* before any removal of the focus offset and before any sequence exposure;
\* an acquisition that returned took exactly one when the flag is true and
\* none when it is false; an acquisition that did not converge took none.
C28_OneVerificationAfterConvergence ==
    /\ NumEv("verify") <= 1
    /\ \A v \in EvAt("verify") :
          /\ config.target_pointing_verification
          /\ success
          /\ \E i \in 1..(v - 1) : log[i].ev = "success"
          /\ \A i \in 1..(v - 1) : log[i].ev \notin {"remove", "seq_expose",
                                                    "raise"}
          /\ \A i \in (v + 1)..Len(log) : ~IsLoopEv(log[i])
    /\ NumEv("acquired") = 1 =>
          NumEv("verify") = IF config.target_pointing_verification THEN 1
                            ELSE 0
    /\ (~success \/ error \in {Exhausted, CentroidFailed})
          => NumEv("verify") = 0

C28_Witness ==
    /\ pc = "done"
    /\ config.target_pointing_verification
    /\ config.do_take_sequence
    /\ config.manual_focus_offset = 2
    /\ NumEv("verify") = 1
    /\ NumEv("acquired") = 1
    /\ NumEv("seq_expose") = 1
    /\ NumEv("remove") = 1



\* ---- C31 ----------------------------------------------------------------
\* the image count in the failure text: f"... after {iter_num} images."
\* (lines 517-519 and 532-534), with iter_num as the loop left it
ReportedImages == log[Len(log)].it

\* C31: when the acquisition loop exhausts its budget, the image count
\* reported in the failure equals the number of exposures taken in the loop,
\* which is max_acq_iter.
C31_ReportedCountIsExposuresTaken ==
    error = Exhausted =>
        /\ NumEv("expose") = config.max_acq_iter
        /\ ReportedImages = NumEv("expose")



\* ---- C32 ----------------------------------------------------------------
\* C32: in every acquisition iteration the data id used to retrieve and
\* measure the image is that of the exposure taken in the same iteration,
\* whatever the order of the imageInOODS events and the flush, take_object
\* and wait steps, a late event of an earlier exposure included.
C32_DataIdOfOwnExposure ==
    \A i \in DOMAIN log :
        log[i].ev \in {"oods", "image"} =>
            /\ pc \in {"get_image", "qm", "check", "measure", "offset"}
                 /\ log[i].it = iter_num
                 => data_id = ExposureOf(log[i].it)
            /\ i = Len(log) => data_id = ExposureOf(log[i].it)



(***************************************************************************)
(* LaserCoordination.run, the electrometer scan of one grid point          *)
(* (coordination/script.py lines 102-111).  LaserSetup shows that run, as  *)
(* written, raises before the loops whenever electrometer_set; ScanSpec    *)
(* starts the block at its entry and follows it for up to MaxScans grid    *)
(* points.  evt_largeFileObjectAvailable.next belongs to salobj, which is  *)
(* not part of the sources: flush_on_create tells whether calling          *)
(* next(flush=True) flushes at once (a plain function that returns an      *)
(* awaitable) or when the returned coroutine is first awaited.             *)
(***************************************************************************)
MaxScans == 3

ScanInputs ==
    {[pc |-> "create", flush_on_create |-> f, n |-> n, k |-> 1,
      queue |-> <<>>, event_pending |-> {}, ack_pending |-> FALSE,
      discarded |-> {}, data_array |-> <<>>, error |-> "none"] :
        f \in BOOLEAN, n \in 1..MaxScans}

ScanInit ==
    /\ AcqIdle
    /\ mapper = [phase |-> "idle"]
    /\ props = [phase |-> "idle"]
    /\ cutter = [phase |-> "idle"]
    /\ cwfs = [pc |-> "idle"]
    /\ selector = [phase |-> "idle"]
    /\ takeseq = [pc |-> "idle"]
    /\ laser \in ScanInputs

\* the events a flush of the queue drops
Flushed(l) == {l.queue[i] : i \in DOMAIN l.queue}

\* evt_largeFileObjectAvailable.flush()
ScanFlush(l) ==
    [l EXCEPT !.queue = <<>>, !.discarded = @ \cup Flushed(l)]

\* electrometer_data_coro = evt_largeFileObjectAvailable.next(flush=True,
\* timeout=self.timeout), lines 103-104
ScanCreateNext ==
    /\ laser.pc = "create"
    /\ laser' = [(IF laser.flush_on_create THEN ScanFlush(laser) ELSE laser)
                    EXCEPT !.pc = "start"]
    /\ LaserOthers

\* cmd_startScanDt.set(scanDuration); await cmd_startScanDt.start(timeout):
\* the command is sent, the electrometer owes its acknowledgement and, when
\* the scan is done, the largeFileObjectAvailable event (lines 105-107)
StartScanDt ==
    /\ laser.pc = "start"
    /\ laser' = [laser EXCEPT !.pc = "await_ack", !.ack_pending = TRUE,
                              !.event_pending = @ \cup {laser.k}]
    /\ LaserOthers

\* the electrometer publishes the event of a scan; the remote queues it
ElectrometerPublish ==
    /\ laser.pc \in {"await_ack", "await_data", "next"}
    /\ \E e \in laser.event_pending :
         laser' = [laser EXCEPT !.event_pending = @ \ {e},
                                !.queue = Append(@, e)]
    /\ LaserOthers

\* the await of cmd_startScanDt.start returns or raises (line 106)
AckStartScanDt ==
    /\ laser.pc = "await_ack"
    /\ laser.ack_pending
    /\ \E ok \in BOOLEAN :
         laser' = IF ok
                  THEN [laser EXCEPT !.pc = "await_data",
                                     !.ack_pending = FALSE]
                  ELSE [laser EXCEPT !.pc = "raised", !.ack_pending = FALSE,
                                     !.error = "startScanDt"]
    /\ LaserOthers

\* electrometer_data = await electrometer_data_coro (line 108): a coroutine
\* starts to run here, flush included
AwaitData ==
    /\ laser.pc = "await_data"
    /\ laser' = [(IF laser.flush_on_create THEN laser ELSE ScanFlush(laser))
                    EXCEPT !.pc = "next"]
    /\ LaserOthers

\* the wait returns the oldest unread event, or times out on an empty
\* queue; data_array.append([... electrometer_data.url]) and the next grid
\* point (lines 108-111)
ScanData ==
    /\ laser.pc = "next"
    /\ laser' =
         IF laser.queue # <<>>
         THEN [laser EXCEPT !.data_array = Append(@, Head(laser.queue)),
                            !.queue = Tail(@),
                            !.k = @ + 1,
                            !.pc = IF laser.k < laser.n THEN "create"
                                   ELSE "done"]
         ELSE [laser EXCEPT !.pc = "raised", !.error = "timeout"]
    /\ LaserOthers

ScanNext ==
    \/ ScanCreateNext
    \/ StartScanDt
    \/ ElectrometerPublish
    \/ AckStartScanDt
    \/ AwaitData
    \/ ScanData

ScanSpec == ScanInit /\ [][ScanNext]_vars

C34_AngleDefinedWhenMapping ==
    (cwfs.pc = "show" \/ CwfsLogged(CwfsEv("start", "show")))
        => cwfs.angle # "None"



\* ---- C35 ----------------------------------------------------------------
\* C35: for every dz and every binning factor >= 1 the stamps handed to the
\* wavefront algorithm have the side length of the instrument model's sample
\* dimension, int(2 * side / binning), and the rebinning succeeds.
C35_StampSideIsSampleDimension ==
    (cutter.phase = "done" /\ cutter.nsources = 1 /\ WindowInside(cutter))
        => /\ cutter.outcome = "ok"
           /\ cutter.I1 = <<<<Instrument(cutter).dim,
                              Instrument(cutter).dim>>>>
           /\ cutter.I2 = cutter.I1



\* ---- C36 ----------------------------------------------------------------
\* positions of the script inside take_intra_extra (lines 239-295)
InTakeIntraExtra ==
    cwfs.pc \in {"hex_flush", "hex_cmd", "hex_next", "take_intra",
                 "take_extra", "encoders", "set_ids"}

\* C36: on every exit path of take_intra_extra, an exposure failure or a
\* hexapod command or positionUpdate timeout part-way through included, the
\* net hexapod z offset commanded by the call is 0 when the call has ended.
C36_NetZeroOnEveryExit ==
    (CwfsLive /\ ~InTakeIntraExtra) => NetZ(cwfs) = 0

====
